---- MODULE Spec2Model ----
(***************************************************************************)
(* Model of the AWS Bedrock conversation agent for Home Assistant:         *)
(*   - BedrockConversationEntity.async_process (conversation.py), the      *)
(*     tool-calling loop;                                                  *)
(*   - BedrockClient.async_generate / _build_bedrock_messages /            *)
(*     _ensure_client (bedrock_client.py), the provider adapter;           *)
(*   - HassServiceTool._run (__init__.py), the service tool.               *)
(*                                                                         *)
(* Text is modelled as a sequence of tokens.  A token is a whitespace      *)
(* token " ", a "." or a word without whitespace and dots; a fixed literal *)
(* of the program is one token.  Python object identities id(x) are        *)
(* modelled as addresses handed out by a counter (all the objects          *)
(* concerned stay referenced for the whole call, so they are distinct).    *)
(***************************************************************************)
EXTENDS Integers, Sequences, FiniteSets, TLC

\* ------------------------------------------------------------------ bounds

\* largest configured max_tool_call_iterations explored
MaxIter == 1
\* largest number of content blocks in one backend response
MaxBlocks == 2
\* the largest remember_num_interactions of the trimming step
MaxKeep == 2
\* the longest history loaded from the chat log in the trimming step
MaxHistory == 6
\* the number of concurrent callers of _ensure_client
MaxCallers == 4
\* the number of successive calls of async_process for one conversation
MaxCalls == 2

\* ------------------------------------------------------------- identifiers

\* block.get("id") of a tool_use block without an id
NoId == [src |-> "none", n |-> 0]
\* an id supplied by the backend ("toolu_..."); the backend's ids are unique
BackendId(k) == [src |-> "backend", n |-> k]
\* the locally generated id f"tool_{id(tool_call)}"
LocalId(addr) == [src |-> "local", n |-> addr]

\* user_input.conversation_id is None
NoConversationId == "None"
ConversationIds == {NoConversationId, "test_conversation"}

SERVICE_TOOL_NAME == "HassCallService"

\* ------------------------------------------------------------------- text

IsSpace(tok) == tok = " "

RECURSIVE LStrip(_)
LStrip(s) == IF s /= <<>> /\ IsSpace(Head(s)) THEN LStrip(Tail(s)) ELSE s

RECURSIVE RStrip(_)
RStrip(s) ==
    IF s /= <<>> /\ IsSpace(s[Len(s)]) THEN RStrip(SubSeq(s, 1, Len(s) - 1)) ELSE s

\* mutant: only leading whitespace is removed
StripLeading(s) == LStrip(s)

\* str.strip()
Strip(s) == RStrip(LStrip(s))

\* ---------------------------------------------------------------- dicts

\* A Python dict is modelled as the sequence of its <<key, value>> items in
\* insertion order; a value is a text (sequence of tokens).
HasKey(d, k) == \E i \in 1..Len(d) : d[i][1] = k

DictGet(d, k) == LET i == CHOOSE j \in 1..Len(d) : d[j][1] = k IN d[i][2]

RECURSIVE JsonItems(_)
JsonItems(d) ==
    IF d = <<>> THEN <<>>
    ELSE <<Head(d)[1], ":">> \o Head(d)[2]
         \o (IF Len(d) > 1 THEN <<",">> ELSE <<>>) \o JsonItems(Tail(d))

\* json.dumps(d)
JsonDumps(d) == <<"{">> \o JsonItems(d) \o <<"}">>

\* ---------------------------------------------------------------- turns

SystemContent(text) == [type |-> "system", content |-> text]

UserContent(text) == [type |-> "user", content |-> text]

\* tool_calls is <<>> for tool_calls=None
AssistantContent(text, calls) ==
    [type |-> "assistant", content |-> text, tool_calls |-> calls]

ToolResultContent(call_id, name, res) ==
    [type |-> "tool_result", tool_call_id |-> call_id, tool_name |-> name,
     tool_result |-> res]

\* llm.ToolInput(tool_name=..., tool_args=...); addr is id(tool_input)
ToolInput(addr, name, args) ==
    [addr |-> addr, tool_name |-> name, tool_args |-> args]

\* ------------------------------------------- BedrockClient (rendering)

TextBlock(text) == [type |-> "text", text |-> text]

\* one tool_use block of an assistant message
ToolUseBlock(tool_call) ==
    [type |-> "tool_use", id |-> LocalId(tool_call.addr),
     name |-> tool_call.tool_name, input |-> tool_call.tool_args]

RECURSIVE ToolUseBlocks(_)
ToolUseBlocks(calls) ==
    IF calls = <<>> THEN <<>>
    ELSE <<ToolUseBlock(Head(calls))>> \o ToolUseBlocks(Tail(calls))

ToolResultBlock(content) ==
    [type |-> "tool_result", tool_use_id |-> content.tool_call_id,
     content |-> <<TextBlock(JsonDumps(content.tool_result))>>]

\* mutant: every tool result starts a user message of its own
RenderTurnNewMessage(messages, content) ==
    CASE content.type = "system" -> messages
      [] content.type = "user" ->
            Append(messages, [role |-> "user", content |-> <<TextBlock(content.content)>>])
      [] content.type = "assistant" ->
            LET message_content ==
                    (IF content.content /= <<>> THEN <<TextBlock(content.content)>> ELSE <<>>)
                    \o ToolUseBlocks(content.tool_calls)
            IN IF message_content /= <<>>
               THEN Append(messages, [role |-> "assistant", content |-> message_content])
               ELSE messages
      [] content.type = "tool_result" ->
            Append(messages, [role |-> "user", content |-> <<ToolResultBlock(content)>>])

\* mutant: the system turn is rendered as a user message
RenderTurnWithSystem(messages, content) ==
    CASE content.type \in {"system", "user"} ->
            Append(messages, [role |-> "user", content |-> <<TextBlock(content.content)>>])
      [] content.type = "assistant" ->
            LET message_content ==
                    (IF content.content /= <<>> THEN <<TextBlock(content.content)>> ELSE <<>>)
                    \o ToolUseBlocks(content.tool_calls)
            IN IF message_content /= <<>>
               THEN Append(messages, [role |-> "assistant", content |-> message_content])
               ELSE messages
      [] content.type = "tool_result" ->
            IF messages /= <<>> /\ messages[Len(messages)].role = "user"
            THEN [messages EXCEPT ![Len(messages)].content =
                        Append(@, ToolResultBlock(content))]
            ELSE Append(messages, [role |-> "user", content |-> <<ToolResultBlock(content)>>])

\* the body of the loop of _build_bedrock_messages for one turn
RenderTurn(messages, content) ==
    CASE content.type = "system" -> messages
      [] content.type = "user" ->
            Append(messages, [role |-> "user", content |-> <<TextBlock(content.content)>>])
      [] content.type = "assistant" ->
            LET message_content ==
                    (IF content.content /= <<>> THEN <<TextBlock(content.content)>> ELSE <<>>)
                    \o ToolUseBlocks(content.tool_calls)
            IN IF message_content /= <<>>
               THEN Append(messages, [role |-> "assistant", content |-> message_content])
               ELSE messages
      [] content.type = "tool_result" ->
            IF messages /= <<>> /\ messages[Len(messages)].role = "user"
            THEN [messages EXCEPT ![Len(messages)].content =
                        Append(@, ToolResultBlock(content))]
            ELSE Append(messages, [role |-> "user", content |-> <<ToolResultBlock(content)>>])

RECURSIVE RenderFrom(_, _)
RenderFrom(conversation_content, messages) ==
    IF conversation_content = <<>> THEN messages
    ELSE RenderFrom(Tail(conversation_content),
                    RenderTurn(messages, Head(conversation_content)))

\* BedrockClient._build_bedrock_messages
BuildBedrockMessages(conversation_content) == RenderFrom(conversation_content, <<>>)

\* the system prompt extracted by async_generate: the first SystemContent
SystemPromptOf(conversation_content) ==
    LET idx == {i \in 1..Len(conversation_content) : conversation_content[i].type = "system"}
    IN IF idx = {} THEN <<>>
       ELSE conversation_content[CHOOSE i \in idx : \A j \in idx : i <= j].content

\* the request body built by async_generate
RequestBody(conversation_content) ==
    LET system_prompt == SystemPromptOf(conversation_content)
    IN [messages |-> BuildBedrockMessages(conversation_content),
        has_system |-> system_prompt /= <<>>,
        system |-> system_prompt,
        has_temperature |-> TRUE]

\* ------------------------------- async_process: parsing of a response

\* the backend did not send stop_reason
NoStopReason == "None"

RECURSIVE ParseBlocks(_, _, _)
\* lines 243-277: the text, the tool calls and the tool_use_ids map of a
\* response; addr is the address of the next ToolInput created
ParseBlocks(content_blocks, addr, acc) ==
    IF content_blocks = <<>> THEN acc
    ELSE LET block == Head(content_blocks)
         IN IF block.type = "text"
            THEN ParseBlocks(Tail(content_blocks), addr,
                             [acc EXCEPT !.response_text = @ \o block.text])
            ELSE ParseBlocks(Tail(content_blocks), addr + 1,
                    [acc EXCEPT
                       !.tool_calls = Append(@, ToolInput(addr, block.name, block.input)),
                       !.tool_use_ids = IF block.id /= NoId
                                        THEN @ \cup {<<addr, block.id>>} ELSE @])

ParseResponse(content_blocks, addr) ==
    ParseBlocks(content_blocks, addr,
                [response_text |-> <<>>, tool_calls |-> <<>>, tool_use_ids |-> {}])

\* mutant: tool_use_ids.get(id(tool_call)) without the fallback
ToolCallIdNoFallback(tool_use_ids, tool_call) ==
    IF \E p \in tool_use_ids : p[1] = tool_call.addr
    THEN (CHOOSE p \in tool_use_ids : p[1] = tool_call.addr)[2]
    ELSE NoId

\* mutant: the backend's id is ignored and the local id always used
ToolCallIdLocalOnly(tool_use_ids, tool_call) == LocalId(tool_call.addr)

\* tool_use_ids.get(id(tool_call), f"tool_{id(tool_call)}")
ToolCallId(tool_use_ids, tool_call) ==
    IF \E p \in tool_use_ids : p[1] = tool_call.addr
    THEN (CHOOSE p \in tool_use_ids : p[1] = tool_call.addr)[2]
    ELSE LocalId(tool_call.addr)


\* ------------------------------------------------------- the environment

\* user_input.text
UserText == <<"Turn on the kitchen light">>

\* what a text block of a response can hold
ResponseTexts == {<<"Done.", " ">>}

\* the arguments of a requested tool call
ToolArgs == <<<<"service", <<"light", ".", "turn_on">>>>,
              <<"target_device", <<"light", ".", "kitchen">>>>>>

\* a tool name that is not in the tool catalog
UnknownToolName == "HassSelfDestruct"

\* the tool names a tool_use block can carry
ToolNames == {SERVICE_TOOL_NAME, UnknownToolName}

\* the tools of the API instance (tools=[HassServiceTool()])
CatalogTools == {SERVICE_TOOL_NAME}

BlockShapes == {[kind |-> "text", text |-> t, with_id |-> FALSE, name |-> "none"] :
                    t \in ResponseTexts}
               \cup {[kind |-> "tool_use", text |-> <<>>, with_id |-> b,
                      name |-> SERVICE_TOOL_NAME] : b \in BOOLEAN}
               \cup {[kind |-> "tool_use", text |-> <<>>, with_id |-> TRUE, name |-> n] :
                        n \in ToolNames}

StopReasons == {"tool_use", "end_turn", "max_tokens"}

\* content block i of the response to backend call number call
BlockOf(shape, call, i) ==
    IF shape.kind = "text" THEN [type |-> "text", text |-> shape.text]
    ELSE [type |-> "tool_use",
          id |-> IF shape.with_id THEN BackendId(call * (MaxBlocks + 1) + i) ELSE NoId,
          name |-> shape.name,
          input |-> ToolArgs]

ContentOf(shapes, call) == [i \in 1..Len(shapes) |-> BlockOf(shapes[i], call, i)]

ShapeSeqs == UNION {[1..n -> BlockShapes] : n \in 0..MaxBlocks}

\* the response bodies the backend may return to backend call number call
ResponseBodies(call) ==
    {[kind |-> "response", stop_reason |-> sr, content |-> ContentOf(sh, call),
      has_error |-> FALSE, exc |-> "none", failure |-> "none"] : sr \in StopReasons, sh \in ShapeSeqs}
    \cup {[kind |-> "response", stop_reason |-> NoStopReason, content |-> ContentOf(sh, call),
           has_error |-> e, exc |-> "none", failure |-> "none"] : e \in BOOLEAN, sh \in {s \in ShapeSeqs : Len(s) <= 1}}

\* how the call of llm_api.async_call_tool can end: it returns, it exceeds the
\* 10 second timeout, or it raises (ValueError is what HassServiceTool._run
\* raises for a service string that does not split into two parts)
ToolOutcomes == {"ok", "TimeoutError", "HomeAssistantError", "ValueError"}

\* How llm_api.async_call_tool(tool_call) can end.  Without an LLM API llm_api
\* is None and the attribute access raises AttributeError; the API instance
\* raises HomeAssistantError for a tool name that is not among its tools and
\* runs the tool otherwise.
CallToolOutcomes(tool_call, api) ==
    IF api = "None" THEN {"AttributeError"}
    ELSE IF tool_call.tool_name \notin CatalogTools THEN {"HomeAssistantError"}
    ELSE ToolOutcomes

\* the classes derived from Exception that occur in the model
ExceptionClasses == {"TimeoutError", "HomeAssistantError", "ValueError",
                     "AttributeError", "BotoCoreError", "ClientError",
                     "JSONDecodeError", "BodyReadError"}

\* the chat log contents async_get_chat_log can hand over
ChatLogs == {<<>>,
             <<SystemContent(<<"old prompt">>), UserContent(<<"hello">>),
               AssistantContent(<<"hi">>, <<>>)>>}

\* ------------------------------------------------------------- results

NoResult == [kind |-> "none", text |-> <<>>, conversation_id |-> NoConversationId]

\* intent_response.async_set_speech(text) in a ConversationResult
SpeechResult(text, cid) == [kind |-> "speech", text |-> text, conversation_id |-> cid]

\* intent_response.async_set_error(UNKNOWN, text) in a ConversationResult
ErrorResult(text, cid) == [kind |-> "error", text |-> text, conversation_id |-> cid]

MaxIterationsSpeech ==
    <<"I'm sorry, I couldn't complete that request after multiple attempts.">>


\* --------------------------------------------- BedrockClient.async_generate

\* where a call of async_generate can fail
GenerateFailures == {"ClientFactoryError", "ClientError", "BodyReadError",
                     "JSONDecodeError", "TimeoutError"}

HomeAssistantError(message) == [type |-> "HomeAssistantError", message |-> message]

\* The exception that leaves async_generate for a failure.  _ensure_client is
\* awaited before the try block (line 445), so what the client factory raises
\* propagates unchanged; inside the try block ClientError and every other
\* Exception (the HomeAssistantError raised for the timeout included) are
\* re-raised as HomeAssistantError.
AsyncGenerateRaises(failure) ==
    CASE failure = "ClientFactoryError" ->
            [type |-> "BotoCoreError", message |-> <<"ClientFactoryError">>]
      [] failure = "ClientError" ->
            HomeAssistantError(<<"Bedrock API error: ", failure>>)
      [] failure = "TimeoutError" ->
            HomeAssistantError(<<"Unexpected error: ",
                                 "Bedrock API call timed out after 30 seconds">>)
      [] OTHER -> HomeAssistantError(<<"Unexpected error: ", failure>>)

\* ------------------------------------------------ async_process: pieces

\* message_history[1:][-(k):] for k > 0
LastN(h, k) == IF Len(h) <= k THEN h ELSE SubSeq(h, Len(h) - k + 1, Len(h))

\* mutant: the most recent turns are kept and the system prompt is not
TrimHistoryLatestOnly(message_history, remember_num_interactions) ==
    IF remember_num_interactions /= 0
       /\ Len(message_history) > remember_num_interactions * 2 + 1
    THEN LastN(message_history, remember_num_interactions * 2 + 1)
    ELSE message_history

\* lines 145-150
TrimHistory(message_history, remember_num_interactions) ==
    IF remember_num_interactions /= 0
       /\ Len(message_history) > remember_num_interactions * 2 + 1
    THEN <<message_history[1]>>
         \o LastN(Tail(message_history), remember_num_interactions * 2)
    ELSE message_history

\* mutant: a history that is not empty keeps its first element
WithSystemPromptOnlyIfEmpty(message_history, system_prompt) ==
    IF Len(message_history) = 0 THEN <<system_prompt>>
    ELSE message_history

\* mutant: the system prompt is inserted in front of a history that is not empty
WithSystemPromptPrepended(message_history, system_prompt) ==
    <<system_prompt>> \o message_history

\* lines 173-176
WithSystemPrompt(message_history, system_prompt) ==
    IF Len(message_history) = 0 THEN <<system_prompt>>
    ELSE [message_history EXCEPT ![1] = system_prompt]

\* mutant: the handler names the wrong exception class
ExceptClientErrorOnly(exc_type) == exc_type = "ClientError"

\* "except HomeAssistantError" (lines 122, 372)
ExceptHomeAssistantError(exc_type) == exc_type = "HomeAssistantError"

\* mutant: only HomeAssistantError is caught around a tool call
ExceptHomeAssistantErrorOnly(exc_type) == exc_type = "HomeAssistantError"

\* "except Exception" around one tool call (line 345)
ExceptException(exc_type) == exc_type \in ExceptionClasses

\* the tool_result of one tool call that did not escape (lines 322, 326, 358)
ToolResultOf(outcome) ==
    CASE outcome = "ok" -> <<<<"result", <<"success">>>>>>
      [] outcome = "TimeoutError" ->
            <<<<"error", <<"Tool call timed out after 10 seconds">>>>>>
      [] OTHER -> <<<<"error", <<outcome>>>>>>

\* mutant: a tool call that fails is logged and skipped, without a result turn
ExecuteToolCallSkipFailed(tool_call, outcome, ids) ==
    IF outcome = "ok"
    THEN [escaped |-> "none",
          turns |-> <<ToolResultContent(ToolCallId(ids, tool_call),
                                        tool_call.tool_name, ToolResultOf(outcome))>>]
    ELSE [escaped |-> "none", turns |-> <<>>]

\* mutant: a tool that is not in the catalog is skipped without a result turn
ExecuteToolCallSkipUnknown(tool_call, outcome, ids) ==
    IF tool_call.tool_name \in CatalogTools
    THEN [escaped |-> "none",
          turns |-> <<ToolResultContent(ToolCallId(ids, tool_call),
                                        tool_call.tool_name, ToolResultOf(outcome))>>]
    ELSE [escaped |-> "none", turns |-> <<>>]

\* One pass of the body of the for loop (lines 312-360): the turn appended
\* for the tool call, or the exception that escapes the body.
ExecuteToolCall(tool_call, outcome, ids) ==
    IF outcome \in {"ok", "TimeoutError"} \/ ExceptException(outcome)
    THEN [escaped |-> "none",
          turns |-> <<ToolResultContent(ToolCallId(ids, tool_call),
                                        tool_call.tool_name, ToolResultOf(outcome))>>]
    ELSE [escaped |-> outcome, turns |-> <<>>]

RECURSIVE ToolIterationResultsStopAtFailure(_, _, _)
\* mutant: the for loop is left at the first tool call that fails
ToolIterationResultsStopAtFailure(calls, outcomes, ids) ==
    IF calls = <<>> THEN [escaped |-> "none", turns |-> <<>>, attempted |-> 0]
    ELSE LET first == ExecuteToolCall(Head(calls), Head(outcomes), ids)
         IN IF first.escaped /= "none"
            THEN [escaped |-> first.escaped, turns |-> <<>>, attempted |-> 1]
            ELSE IF Head(outcomes) /= "ok"
            THEN [escaped |-> "none", turns |-> first.turns, attempted |-> 1]
            ELSE LET rest == ToolIterationResultsStopAtFailure(Tail(calls),
                                                               Tail(outcomes), ids)
                 IN [escaped |-> rest.escaped,
                     turns |-> first.turns \o rest.turns,
                     attempted |-> rest.attempted + 1]

RECURSIVE ToolIterationResults(_, _, _)
\* the for loop of lines 311-360 over tool_calls: tool_iteration_results, the
\* number of calls attempted and the exception that ended the loop early
ToolIterationResults(calls, outcomes, ids) ==
    IF calls = <<>> THEN [escaped |-> "none", turns |-> <<>>, attempted |-> 0]
    ELSE LET first == ExecuteToolCall(Head(calls), Head(outcomes), ids)
         IN IF first.escaped /= "none"
            THEN [escaped |-> first.escaped, turns |-> <<>>, attempted |-> 1]
            ELSE LET rest == ToolIterationResults(Tail(calls), Tail(outcomes), ids)
                 IN [escaped |-> rest.escaped,
                     turns |-> first.turns \o rest.turns,
                     attempted |-> rest.attempted + 1]

\* mutant: a missing stop_reason is not detected
StopReasonMissingNever(stop_reason) == FALSE

\* "if stop_reason is None" (line 209)
StopReasonMissing(stop_reason) == stop_reason = NoStopReason

\* mutant: the loop stops one iteration early
LoopContinuesStrict(iterations, max_iterations) == iterations < max_iterations

\* the condition of the while loop (line 187)
LoopContinues(iterations, max_iterations) == iterations <= max_iterations

\* mutant: "and" in place of "or"
IsCompleteBoth(stop_reason, calls) == stop_reason /= "tool_use" /\ calls = <<>>

\* mutant: the stop reason is not looked at
IsCompleteWithoutCalls(stop_reason, calls) == calls = <<>>

\* the condition of line 290
IsComplete(stop_reason, calls) == stop_reason /= "tool_use" \/ calls = <<>>

\* the conversation_id of every returned ConversationResult
ResultConversationId(input) == input.conversation_id

\* ------------------------------------------------- HassServiceTool._run

SERVICE_TOOL_ALLOWED_SERVICES ==
    {<<"turn_on">>, <<"turn_off">>, <<"toggle">>, <<"press">>,
     <<"increase_speed">>, <<"decrease_speed">>,
     <<"open_cover">>, <<"close_cover">>, <<"stop_cover">>,
     <<"lock">>, <<"unlock">>, <<"start">>, <<"stop">>,
     <<"return_to_base">>, <<"pause">>, <<"cancel">>, <<"add_item">>,
     <<"set_temperature">>, <<"set_humidity">>,
     <<"set_fan_mode">>, <<"set_hvac_mode">>, <<"set_preset_mode">>}

SERVICE_TOOL_ALLOWED_DOMAINS ==
    {<<"light">>, <<"switch">>, <<"cover">>, <<"lock">>, <<"climate">>,
     <<"fan">>, <<"vacuum">>, <<"media_player">>, <<"button">>}

ALLOWED_SERVICE_CALL_ARGUMENTS ==
    {"brightness", "rgb_color", "temperature",
     "humidity", "fan_mode", "hvac_mode", "preset_mode"}

ATTR_ENTITY_ID == "entity_id"

RECURSIVE SplitDot(_)
\* str.split("."): the parts of a text between its "." tokens
SplitDot(s) ==
    IF \A i \in 1..Len(s) : s[i] /= "." THEN <<s>>
    ELSE LET i == CHOOSE j \in 1..Len(s) :
                      s[j] = "." /\ \A k \in 1..(j - 1) : s[k] /= "."
         IN <<SubSeq(s, 1, i - 1)>> \o SplitDot(SubSeq(s, i + 1, Len(s)))

\* f"{domain}.{service_name}" (line 121)
ServiceKey(domain, service_name) == domain \o <<".">> \o service_name

\* the check of line 116
DomainAllowed(domain) == domain \in SERVICE_TOOL_ALLOWED_DOMAINS

\* mutant: the service check lets every service pass
ServiceAllowedAny(domain, service_name) == TRUE

\* the check of line 122
ServiceAllowed(domain, service_name) ==
    ServiceKey(domain, service_name) \in SERVICE_TOOL_ALLOWED_SERVICES

RECURSIVE ExtraServiceData(_)
\* lines 130-136: the additional parameters copied into service_data
ExtraServiceData(args) ==
    IF args = <<>> THEN <<>>
    ELSE LET arg == Head(args)[1]
         IN (IF arg \notin {"service", "target_device"}
                /\ arg \in ALLOWED_SERVICE_CALL_ARGUMENTS
             THEN <<Head(args)>> ELSE <<>>)
            \o ExtraServiceData(Tail(args))

\* how hass.services.async_call(..., blocking=True) can end
ServiceCallOutcomes == {"ack", "HomeAssistantError", "Invalid"}

\* HassServiceTool._run: what it returns or raises for the tool arguments and
\* the service calls it makes; backend is how a service call would end
HassServiceToolRun(args, backend) ==
    IF ~HasKey(args, "service")
    THEN [raised |-> "none", calls |-> <<>>,
          result |-> <<<<"result", <<"error">>>>,
                       <<"error", <<"Missing required parameter: ", "service">>>>>>]
    ELSE IF ~HasKey(args, "target_device")
    THEN [raised |-> "none", calls |-> <<>>,
          result |-> <<<<"result", <<"error">>>>,
                       <<"error", <<"Missing required parameter: ", "target_device">>>>>>]
    ELSE
    LET service == DictGet(args, "service")
        target_device == DictGet(args, "target_device")
        parts == SplitDot(service)
    IN IF Len(parts) /= 2
       THEN [raised |-> "ValueError", calls |-> <<>>, result |-> <<>>]
       ELSE
       LET domain == parts[1]
           service_name == parts[2]
           service_data == <<<<ATTR_ENTITY_ID, target_device>>>> \o ExtraServiceData(args)
           call == [domain |-> domain, service |-> service_name,
                    service_data |-> service_data, outcome |-> backend]
       IN IF ~DomainAllowed(domain)
          THEN [raised |-> "none", calls |-> <<>>,
                result |-> <<<<"result", <<"error">>>>,
                             <<"error", <<"Domain ">> \o domain \o <<" is not allowed">>>>>>]
          ELSE IF ~ServiceAllowed(domain, service_name)
          THEN [raised |-> "none", calls |-> <<>>,
                result |-> <<<<"result", <<"error">>>>,
                             <<"error", <<"Service ">> \o service \o <<" is not allowed">>>>>>]
          ELSE IF backend = "ack"
          THEN [raised |-> "none", calls |-> <<call>>,
                result |-> <<<<"result", <<"success">>>>, <<"service", service>>,
                             <<"target", target_device>>>>]
          ELSE IF ExceptHomeAssistantError(backend)
          THEN [raised |-> "none", calls |-> <<call>>,
                result |-> <<<<"result", <<"error">>>>, <<"error", <<backend>>>>>>]
          ELSE [raised |-> backend, calls |-> <<call>>, result |-> <<>>]

\* the service strings a tool call can carry
ServiceStrings ==
    {<<"light", ".", "turn_on">>, <<"light_turn_on">>,
     <<"light", ".", "turn", ".", "on">>, <<"sensor", ".", "turn_on">>,
     <<"light", ".", "explode">>, <<"climate", ".", "set_temperature">>}

TargetDevices == {<<"light", ".", "kitchen">>}

\* the optional arguments a tool call can carry, in this order
ExtraArguments ==
    <<<<"brightness", <<"128">>>>, <<"temperature", <<"21">>>>,
      <<"item", <<"milk">>>>, <<"color_name", <<"red">>>>>>

RECURSIVE SubSeqs(_)
\* the subsequences of a sequence
SubSeqs(s) ==
    IF s = <<>> THEN {<<>>}
    ELSE LET rest == SubSeqs(Tail(s))
         IN rest \cup {<<Head(s)>> \o r : r \in rest}

\* the tool_args a tool call can carry
ToolArgsInputs ==
    {sv \o tg \o ex :
        sv \in {<<>>} \cup {<<<<"service", x>>>> : x \in ServiceStrings},
        tg \in {<<>>} \cup {<<<<"target_device", x>>>> : x \in TargetDevices},
        ex \in SubSeqs(ExtraArguments)}


\* -------------------------------------------------------------- state

VARIABLES
    pc,               \* "idle", "loop", "dispatch", "done" (returned), "raised"
    user_input,       \* [text, conversation_id]
    options,          \* the entry's options read by async_process
    bedrock_runtime,  \* BedrockClient._bedrock_runtime: NoClient or a client handle
    llm_api,          \* "None" or "loaded"
    message_history,
    tool_iterations,
    tool_calls,       \* the tool calls of the round being dispatched
    tool_use_ids,     \* set of <<id(tool_input), backend id>>
    next_addr,        \* the address of the next object created
    backend_calls,    \* number of calls of async_generate
    requests,         \* the request bodies built, one per call
    replies,          \* what each call of async_generate produced
    tool_log,         \* the tool calls executed, with their outcome
    result,           \* the ConversationResult returned
    raised,           \* the type of the exception that left async_process
    prompt_outcome,   \* how _generate_system_prompt ended: "none" (not called),
                      \* "rendered" or "TemplateError"
    chat_log,         \* chat_log.content: what the chat log of the conversation holds
    earlier_turns,    \* the turns the previous call of async_process recorded
    call_no,          \* the number of the call of async_process
    run_pc,           \* HassServiceTool._run: "ready", "returned", "raised"
    run_args,         \* tool_input.tool_args
    run_result,       \* the dict _run returned
    run_raised,       \* the type of the exception that left _run
    service_calls,    \* the calls of hass.services.async_call made by _run
    trim_pc,          \* the trimming step: "ready", "done"
    trim_loaded,      \* the history loaded from the chat log
    trim_n,           \* remember_num_interactions
    trim_result,      \* message_history after the trimming step
    client_pc,        \* per caller of _ensure_client: "start", "acquire" (at
                      \* the lock), "executor", "returned", "raised"
    client_lock,      \* the caller that holds _client_lock, 0 when it is free
    factory_runs,     \* the number of runs of _create_bedrock_client started
    created,          \* the handles _create_bedrock_client returned, in order
    client_seen,      \* per caller: _bedrock_runtime when _ensure_client returned
    running,          \* which of two concurrent calls of async_process runs
    parked,           \* the local variables of the call that is suspended
    entities_pc,      \* _get_exposed_entities: "ready", "returned"
    hass_states,      \* hass.states.async_all(), with the exposure of each state
    devices,          \* the list _get_exposed_entities returned
    color_pc,         \* closest_color: "ready", "returned"
    requested_color,  \* the argument of closest_color
    color_name,       \* what closest_color returned
    validate_pc,      \* validate_aws_credentials: "ready", "returned", "raised"
    aws_outcomes,     \* how the two boto3 calls of the validation end
    validate_result,  \* what validate_aws_credentials returned
    generate_pc,      \* the request building of async_generate: "ready", "built"
    generate_args,    \* its arguments: conversation_content and the model id
    request_body      \* the request body it built

convvars == <<pc, user_input, options, llm_api, message_history,
              tool_iterations, tool_calls, tool_use_ids, next_addr, backend_calls,
              requests, replies, tool_log, result, raised, prompt_outcome,
              chat_log, earlier_turns, call_no>>

loopvars == <<convvars, bedrock_runtime>>

toolvars == <<run_pc, run_args, run_result, run_raised, service_calls>>

trimvars == <<trim_pc, trim_loaded, trim_n, trim_result>>

clientvars == <<client_pc, client_lock, factory_runs, created, client_seen>>

\* what a call of async_process leaves alone
pairvars == <<running, parked>>

\* the functions checked on their own: _get_exposed_entities, closest_color,
\* validate_aws_credentials
unitvars == <<entities_pc, hass_states, devices, color_pc, requested_color,
              color_name, validate_pc, aws_outcomes, validate_result,
              generate_pc, generate_args, request_body>>

othervars == <<toolvars, trimvars, clientvars, pairvars, unitvars>>

vars == <<loopvars, toolvars, trimvars, clientvars, pairvars, unitvars>>

\* _bedrock_runtime before the client is created
NoClient == [created |-> FALSE, handle |-> 0]

\* the client object returned by run number k of _create_bedrock_client
ClientHandle(k) == [created |-> TRUE, handle |-> k]

NoRequest == [messages |-> <<>>, has_system |-> FALSE, system |-> <<>>,
              has_temperature |-> FALSE]

\* no call of HassServiceTool._run is in progress
ToolIdle ==
    /\ run_pc = "ready"
    /\ run_args = <<>>
    /\ run_result = <<>>
    /\ run_raised = "none"
    /\ service_calls = <<>>

\* the trimming step is not observed
TrimIdle ==
    /\ trim_pc = "ready"
    /\ trim_loaded = <<>>
    /\ trim_n = 0
    /\ trim_result = <<>>

\* no call of _ensure_client is in progress
ClientIdle ==
    /\ client_pc = <<>>
    /\ client_lock = 0
    /\ factory_runs = 0
    /\ created = <<>>
    /\ client_seen = <<>>

\* no call of _get_exposed_entities is observed
EntitiesIdle ==
    /\ entities_pc = "ready"
    /\ hass_states = <<>>
    /\ devices = <<>>

\* no call of closest_color is observed
ColorIdle ==
    /\ color_pc = "ready"
    /\ requested_color = <<0, 0, 0>>
    /\ color_name = ""

\* no request building of async_generate is observed
GenerateIdle ==
    /\ generate_pc = "ready"
    /\ generate_args = <<>>
    /\ request_body = <<>>

\* no call of validate_aws_credentials is observed
ValidateIdle ==
    /\ validate_pc = "ready"
    /\ aws_outcomes = <<>>
    /\ validate_result = <<>>

\* there is no second call of async_process
PairIdle ==
    /\ running = 1
    /\ parked = <<>>

\* the state of a call of async_process at its entry
CallEntry ==
    /\ pc = "idle"
    /\ llm_api = "None"
    /\ message_history = <<>>
    /\ tool_iterations = 0
    /\ tool_calls = <<>>
    /\ tool_use_ids = {}
    /\ backend_calls = 0
    /\ requests = <<>>
    /\ replies = <<>>
    /\ tool_log = <<>>
    /\ result = NoResult
    /\ raised = "none"
    /\ prompt_outcome = "none"

Init ==
    /\ ToolIdle
    /\ TrimIdle
    /\ ClientIdle
    /\ CallEntry
    /\ PairIdle
    /\ EntitiesIdle
    /\ ColorIdle
    /\ ValidateIdle
    /\ GenerateIdle
    /\ user_input \in [text : {UserText}, conversation_id : ConversationIds]
    /\ options \in [max_tool_call_iterations : 0..MaxIter, llm_hass_api : BOOLEAN,
                     remember_conversation : BOOLEAN,
                     refresh_system_prompt : BOOLEAN]
    /\ chat_log \in ChatLogs
    /\ earlier_turns = <<>>
    /\ call_no = 1
    /\ next_addr = 1
    /\ bedrock_runtime = NoClient

\* a return statement of async_process
Return(res) ==
    /\ pc' = "done"
    /\ result' = res
    /\ raised' = raised

\* mutant: the handler of the prompt generation catches nothing
ExceptTemplateErrorNever(exc_type) == FALSE

\* "except TemplateError" (line 161)
ExceptTemplateError(exc_type) == exc_type = "TemplateError"

\* lines 89-179: options, LLM API, history, trimming, system prompt, user turn
Prepare ==
    /\ UNCHANGED othervars
    /\ pc = "idle"
    /\ \E api \in (IF options.llm_hass_api THEN {"loaded", "HomeAssistantError"}
                   ELSE {"None"}),
          prompt \in {"rendered", "TemplateError"} :
        LET loaded == IF options.remember_conversation THEN chat_log ELSE <<>>
            trimmed == TrimHistory(loaded, 10)
            generate == Len(trimmed) = 0 \/ options.refresh_system_prompt
            seeded == IF generate
                      THEN WithSystemPrompt(trimmed, SystemContent(<<"system prompt">>))
                      ELSE trimmed
        IN IF ExceptHomeAssistantError(api)
           THEN /\ Return(ErrorResult(<<"Error preparing LLM API: ", api>>,
                                      ResultConversationId(user_input)))
                /\ UNCHANGED <<llm_api, message_history, prompt_outcome>>
           ELSE IF generate /\ prompt /= "rendered"
           THEN /\ llm_api' = api
                /\ prompt_outcome' = prompt
                /\ UNCHANGED message_history
                /\ IF ExceptTemplateError(prompt)
                   THEN Return(ErrorResult(
                            <<"Sorry, I had a problem with my template: ", prompt>>,
                            ResultConversationId(user_input)))
                   ELSE /\ pc' = "raised"
                        /\ raised' = prompt
                        /\ UNCHANGED result
           ELSE /\ pc' = "loop"
                /\ llm_api' = api
                /\ prompt_outcome' = IF generate THEN "rendered" ELSE "none"
                /\ message_history' = Append(seeded, UserContent(user_input.text))
                /\ UNCHANGED <<result, raised>>
    /\ UNCHANGED <<user_input, options, bedrock_runtime, tool_iterations, tool_calls,
                   tool_use_ids, next_addr, backend_calls, requests, replies, tool_log,
                   chat_log, earlier_turns, call_no>>

\* an exception leaves the call of async_generate (lines 372-382)
GenerateFailed(failure) ==
    LET err == AsyncGenerateRaises(failure)
    IN /\ replies' = Append(replies, [kind |-> "raised", stop_reason |-> NoStopReason,
                                      content |-> <<>>, has_error |-> FALSE,
                                      exc |-> err.type, failure |-> failure])
       /\ IF ExceptHomeAssistantError(err.type)
          THEN Return(ErrorResult(<<"Sorry, there was an error: ">> \o err.message,
                                  ResultConversationId(user_input)))
          ELSE /\ pc' = "raised"
               /\ raised' = err.type
               /\ UNCHANGED result

\* one iteration of the loop in which _ensure_client fails
BedrockClientFails ==
    /\ UNCHANGED othervars
    /\ pc = "loop"
    /\ LoopContinues(tool_iterations, options.max_tool_call_iterations)
    /\ bedrock_runtime = NoClient
    /\ backend_calls' = backend_calls + 1
    /\ requests' = Append(requests, NoRequest)
    /\ GenerateFailed("ClientFactoryError")
    /\ UNCHANGED <<user_input, options, bedrock_runtime, llm_api, message_history,
                   tool_iterations, tool_calls, tool_use_ids, next_addr, tool_log,
                   prompt_outcome, chat_log, earlier_turns, call_no>>

\* one iteration of the loop in which the invocation fails or times out
BedrockCallFails ==
    /\ UNCHANGED othervars
    /\ pc = "loop"
    /\ LoopContinues(tool_iterations, options.max_tool_call_iterations)
    /\ backend_calls' = backend_calls + 1
    /\ bedrock_runtime' = ClientHandle(1)
    /\ requests' = Append(requests, RequestBody(message_history))
    /\ \E failure \in GenerateFailures \ {"ClientFactoryError"} : GenerateFailed(failure)
    /\ UNCHANGED <<user_input, options, llm_api, message_history, tool_iterations,
                   tool_calls, tool_use_ids, next_addr, tool_log,
                   prompt_outcome, chat_log, earlier_turns, call_no>>

\* one iteration of the loop in which the backend answers (lines 188-305)
BedrockResponds ==
    /\ UNCHANGED othervars
    /\ pc = "loop"
    /\ LoopContinues(tool_iterations, options.max_tool_call_iterations)
    /\ backend_calls' = backend_calls + 1
    /\ bedrock_runtime' = ClientHandle(1)
    /\ requests' = Append(requests, RequestBody(message_history))
    /\ \E response \in ResponseBodies(backend_calls + 1) :
        /\ replies' = Append(replies, response)
        /\ IF StopReasonMissing(response.stop_reason)
           THEN /\ Return(ErrorResult(
                         IF response.has_error
                         THEN <<"Bedrock API error: ", "error">>
                         ELSE <<"Sorry, I received an unexpected response. Please try again.">>,
                         ResultConversationId(user_input)))
                /\ UNCHANGED <<message_history, tool_calls, tool_use_ids, next_addr>>
           ELSE LET parsed == ParseResponse(response.content, next_addr)
                IN /\ message_history' =
                        IF parsed.response_text /= <<>> \/ parsed.tool_calls /= <<>>
                        THEN Append(message_history,
                                    AssistantContent(Strip(parsed.response_text),
                                                     parsed.tool_calls))
                        ELSE message_history
                   /\ next_addr' = next_addr + Len(parsed.tool_calls)
                   /\ IF IsComplete(response.stop_reason, parsed.tool_calls)
                      THEN /\ Return(SpeechResult(Strip(parsed.response_text),
                                                  ResultConversationId(user_input)))
                           /\ UNCHANGED <<tool_calls, tool_use_ids>>
                      ELSE /\ pc' = "dispatch"
                           /\ tool_calls' = parsed.tool_calls
                           /\ tool_use_ids' = parsed.tool_use_ids
                           /\ UNCHANGED <<result, raised>>
    /\ UNCHANGED <<user_input, options, llm_api, tool_iterations, tool_log,
                   prompt_outcome, chat_log, earlier_turns, call_no>>

\* lines 307-370: the tool calls of the round are executed in order
ExecuteTools ==
    /\ UNCHANGED othervars
    /\ pc = "dispatch"
    /\ \E outcomes \in {o \in [1..Len(tool_calls) -> ToolOutcomes \cup {"AttributeError"}] :
                          \A i \in 1..Len(tool_calls) :
                              o[i] \in CallToolOutcomes(tool_calls[i], llm_api)} :
        LET round == ToolIterationResults(tool_calls, outcomes, tool_use_ids)
        IN /\ tool_log' = tool_log \o [i \in 1..round.attempted |->
                                         [call |-> tool_calls[i], outcome |-> outcomes[i]]]
           /\ IF round.escaped = "none"
              THEN /\ message_history' = message_history \o round.turns
                   /\ tool_iterations' = tool_iterations + 1
                   /\ pc' = "loop"
                   /\ UNCHANGED <<result, raised>>
              ELSE /\ UNCHANGED <<message_history, tool_iterations>>
                   /\ IF ExceptHomeAssistantError(round.escaped)
                      THEN Return(ErrorResult(<<"Sorry, there was an error: ", round.escaped>>,
                                              ResultConversationId(user_input)))
                      ELSE /\ pc' = "raised"
                           /\ raised' = round.escaped
                           /\ UNCHANGED result
    /\ UNCHANGED <<user_input, options, bedrock_runtime, llm_api, tool_calls,
                   tool_use_ids, next_addr, backend_calls, requests, replies,
                   prompt_outcome, chat_log, earlier_turns, call_no>>

\* lines 384-393: the loop condition fails
MaxIterationsReached ==
    /\ UNCHANGED othervars
    /\ pc = "loop"
    /\ ~LoopContinues(tool_iterations, options.max_tool_call_iterations)
    /\ Return(SpeechResult(MaxIterationsSpeech, ResultConversationId(user_input)))
    /\ UNCHANGED <<user_input, options, bedrock_runtime, llm_api, message_history,
                   tool_iterations, tool_calls, tool_use_ids, next_addr, backend_calls,
                   requests, replies, tool_log,
                   prompt_outcome, chat_log, earlier_turns, call_no>>

Next ==
    \/ Prepare
    \/ BedrockClientFails
    \/ BedrockCallFails
    \/ BedrockResponds
    \/ ExecuteTools
    \/ MaxIterationsReached

Spec == Init /\ [][Next]_vars

\* ---------------- specification of successive calls of async_process

\* The turns the current call appended to message_history: the user turn
\* (line 179) and everything after it.  They follow the loaded, trimmed
\* history, or the one system prompt of an empty history.
RecordedTurns ==
    IF message_history = <<>> THEN <<>>
    ELSE LET loaded == IF options.remember_conversation THEN chat_log ELSE <<>>
             kept == Len(TrimHistory(loaded, 10))
             base == IF kept = 0 THEN 1 ELSE kept
         IN SubSeq(message_history, base + 1, Len(message_history))

\* What the chat log of the conversation can hold once the "with" block of
\* lines 91-96 is left.  async_process itself adds nothing to it;
\* async_get_chat_log was handed user_input (line 95) and may have recorded
\* the user turn on its own.
ChatLogAfterCall(log, input) ==
    {log,
     (IF log = <<>> THEN <<SystemContent(<<>>)>> ELSE log)
        \o <<UserContent(input.text)>>}

InitMemory ==
    /\ ToolIdle
    /\ TrimIdle
    /\ ClientIdle
    /\ CallEntry
    /\ PairIdle
    /\ EntitiesIdle
    /\ ColorIdle
    /\ ValidateIdle
    /\ GenerateIdle
    /\ user_input = [text |-> UserText, conversation_id |-> "test_conversation"]
    /\ options \in [max_tool_call_iterations : {0}, llm_hass_api : {TRUE},
                     remember_conversation : {TRUE},
                     refresh_system_prompt : BOOLEAN]
    /\ chat_log \in ChatLogs
    /\ earlier_turns = <<>>
    /\ call_no = 1
    /\ next_addr = 1
    /\ bedrock_runtime = NoClient

\* async_process has ended and is called again with the same conversation
\* id.  message_history is a local list, a copy of chat_log.content (line
\* 139), and async_process calls no method of chat_log, so none of the turns
\* it appended to message_history is in the chat log.
NextCall ==
    /\ pc \in {"done", "raised"}
    /\ call_no < MaxCalls
    /\ call_no' = call_no + 1
    /\ earlier_turns' = RecordedTurns
    /\ pc' = "idle"
    /\ llm_api' = "None"
    /\ message_history' = <<>>
    /\ tool_iterations' = 0
    /\ tool_calls' = <<>>
    /\ tool_use_ids' = {}
    /\ backend_calls' = 0
    /\ requests' = <<>>
    /\ replies' = <<>>
    /\ tool_log' = <<>>
    /\ result' = NoResult
    /\ raised' = "none"
    /\ prompt_outcome' = "none"
    /\ chat_log' \in ChatLogAfterCall(chat_log, user_input)
    /\ UNCHANGED <<user_input, options, next_addr, bedrock_runtime>>
    /\ UNCHANGED othervars

NextMemory ==
    \/ Next
    \/ NextCall

SpecMemory == InitMemory /\ [][NextMemory]_vars

\* ------------- specification of two concurrent calls of async_process

\* user_input.text of the second call
OtherUserText == <<"Lock the front door">>

\* The local variables of the running call of async_process, and the chat
\* log of its conversation id.  Everything async_process works on is a local
\* of the coroutine; the agent's attributes are not assigned after __init__.
CallLocals ==
    [pc |-> pc, user_input |-> user_input, options |-> options, llm_api |-> llm_api,
     message_history |-> message_history, tool_iterations |-> tool_iterations,
     tool_calls |-> tool_calls, tool_use_ids |-> tool_use_ids,
     backend_calls |-> backend_calls, requests |-> requests, replies |-> replies,
     tool_log |-> tool_log, result |-> result, raised |-> raised,
     prompt_outcome |-> prompt_outcome, chat_log |-> chat_log]

\* mutant: the history is kept on the agent and not in the coroutine
ResumedHistoryShared(saved) == message_history

\* message_history of a call that is resumed: its own list (lines 137-141)
ResumedHistory(saved) == saved.message_history

InitPair ==
    /\ ToolIdle
    /\ TrimIdle
    /\ ClientIdle
    /\ EntitiesIdle
    /\ ColorIdle
    /\ ValidateIdle
    /\ GenerateIdle
    /\ CallEntry
    /\ user_input = [text |-> UserText, conversation_id |-> "test_conversation"]
    /\ options \in [max_tool_call_iterations : {0}, llm_hass_api : BOOLEAN,
                     remember_conversation : {TRUE},
                     refresh_system_prompt : BOOLEAN]
    /\ chat_log = <<SystemContent(<<"old prompt">>), UserContent(<<"hello">>),
                    AssistantContent(<<"hi">>, <<>>)>>
    /\ earlier_turns = <<>>
    /\ call_no = 1
    /\ next_addr = 1
    /\ bedrock_runtime = NoClient
    /\ running = 1
    /\ parked = [pc |-> "idle",
                 user_input |-> [text |-> OtherUserText,
                                 conversation_id |-> "other_conversation"],
                 options |-> options, llm_api |-> "None", message_history |-> <<>>,
                 tool_iterations |-> 0, tool_calls |-> <<>>, tool_use_ids |-> {},
                 backend_calls |-> 0, requests |-> <<>>, replies |-> <<>>,
                 tool_log |-> <<>>, result |-> NoResult, raised |-> "none",
                 prompt_outcome |-> "none", chat_log |-> <<>>]

\* The running call is suspended at an await (or has ended) and the event
\* loop resumes the other call, which has not ended.
Switch ==
    /\ parked.pc \notin {"done", "raised"}
    /\ running' = 3 - running
    /\ parked' = CallLocals
    /\ pc' = parked.pc
    /\ user_input' = parked.user_input
    /\ options' = parked.options
    /\ llm_api' = parked.llm_api
    /\ message_history' = ResumedHistory(parked)
    /\ tool_iterations' = parked.tool_iterations
    /\ tool_calls' = parked.tool_calls
    /\ tool_use_ids' = parked.tool_use_ids
    /\ backend_calls' = parked.backend_calls
    /\ requests' = parked.requests
    /\ replies' = parked.replies
    /\ tool_log' = parked.tool_log
    /\ result' = parked.result
    /\ raised' = parked.raised
    /\ prompt_outcome' = parked.prompt_outcome
    /\ chat_log' = parked.chat_log
    /\ UNCHANGED <<earlier_turns, call_no, next_addr, bedrock_runtime>>
    /\ UNCHANGED <<toolvars, trimvars, clientvars, unitvars>>

NextPair ==
    \/ Next
    \/ Switch

SpecPair == InitPair /\ [][NextPair]_vars

\* ------------------------------- specification of HassServiceTool._run

InitTool ==
    /\ run_pc = "ready"
    /\ run_args \in ToolArgsInputs
    /\ run_result = <<>>
    /\ run_raised = "none"
    /\ service_calls = <<>>
    /\ TrimIdle
    /\ ClientIdle
    /\ CallEntry
    /\ PairIdle
    /\ EntitiesIdle
    /\ ColorIdle
    /\ ValidateIdle
    /\ GenerateIdle
    /\ user_input = [text |-> UserText, conversation_id |-> NoConversationId]
    /\ options = [max_tool_call_iterations |-> 0, llm_hass_api |-> TRUE,
                  remember_conversation |-> TRUE, refresh_system_prompt |-> FALSE]
    /\ chat_log = <<>>
    /\ earlier_turns = <<>>
    /\ call_no = 1
    /\ next_addr = 1
    /\ bedrock_runtime = NoClient

\* one call of HassServiceTool._run (lines 99-151)
RunServiceTool ==
    /\ run_pc = "ready"
    /\ \E backend \in ServiceCallOutcomes :
        LET run == HassServiceToolRun(run_args, backend)
        IN /\ service_calls' = service_calls \o run.calls
           /\ run_result' = run.result
           /\ run_raised' = run.raised
           /\ run_pc' = IF run.raised = "none" THEN "returned" ELSE "raised"
    /\ UNCHANGED run_args
    /\ UNCHANGED <<loopvars, trimvars, clientvars, pairvars, unitvars>>

NextTool == RunServiceTool

SpecTool == InitTool /\ [][NextTool]_vars

\* ------------------------------ specification of the trimming step

\* the text of turn number i of a loaded history
TurnTexts == <<"t1", "t2", "t3", "t4", "t5", "t6", "t7", "t8">>

\* the turns a chat log can hold at position i: any kind of content; the
\* texts differ from position to position, and an assistant turn with a tool
\* call asks for the call that a tool result at the next position answers
TurnsAt(i) ==
    IF i = 1 THEN {SystemContent(<<TurnTexts[1]>>)}
    ELSE {UserContent(<<TurnTexts[i]>>),
          AssistantContent(<<TurnTexts[i]>>, <<>>),
          AssistantContent(<<TurnTexts[i]>>,
                           <<ToolInput(i + 1, SERVICE_TOOL_NAME, ToolArgs)>>),
          ToolResultContent(LocalId(i), SERVICE_TOOL_NAME,
                            <<<<"result", <<TurnTexts[i]>>>>>>)}

RECURSIVE HistoriesOfLen(_)
\* the chat logs of n turns
HistoriesOfLen(n) ==
    IF n = 0 THEN {<<>>}
    ELSE {Append(h, t) : h \in HistoriesOfLen(n - 1), t \in TurnsAt(n)}

\* chat_log.content[:] for chat logs of up to MaxHistory turns
LoadedHistories == UNION {HistoriesOfLen(n) : n \in 0..MaxHistory}

InitTrim ==
    /\ trim_pc = "ready"
    /\ trim_n \in 0..MaxKeep
    /\ trim_loaded \in LoadedHistories
    /\ trim_result = <<>>
    /\ ToolIdle
    /\ ClientIdle
    /\ CallEntry
    /\ PairIdle
    /\ EntitiesIdle
    /\ ColorIdle
    /\ ValidateIdle
    /\ GenerateIdle
    /\ user_input = [text |-> UserText, conversation_id |-> NoConversationId]
    /\ options = [max_tool_call_iterations |-> 0, llm_hass_api |-> TRUE,
                  remember_conversation |-> TRUE, refresh_system_prompt |-> FALSE]
    /\ chat_log = <<>>
    /\ earlier_turns = <<>>
    /\ call_no = 1
    /\ next_addr = 1
    /\ bedrock_runtime = NoClient

\* lines 137-150: the history is loaded and trimmed
TrimStep ==
    /\ trim_pc = "ready"
    /\ trim_result' = TrimHistory(trim_loaded, trim_n)
    /\ trim_pc' = "done"
    /\ UNCHANGED <<trim_loaded, trim_n>>
    /\ UNCHANGED <<loopvars, toolvars, clientvars, pairvars, unitvars>>

NextTrim == TrimStep

SpecTrim == InitTrim /\ [][NextTrim]_vars

\* ---------------------- specification of BedrockClient._ensure_client

\* the tasks that call _ensure_client on the one BedrockClient
Callers == 1..MaxCallers

\* "if self._bedrock_runtime is None" before the lock (line 110)
ClientMissing(runtime) == runtime = NoClient

\* mutant: the check under the lock is dropped
ClientAlwaysMissing(runtime) == TRUE

\* "if self._bedrock_runtime is None" under the lock (line 117)
ClientStillMissing(runtime) == runtime = NoClient

InitClient ==
    /\ client_pc = [c \in Callers |-> "start"]
    /\ client_lock = 0
    /\ factory_runs = 0
    /\ created = <<>>
    /\ client_seen = [c \in Callers |-> NoClient]
    /\ bedrock_runtime = NoClient
    /\ ToolIdle
    /\ TrimIdle
    /\ CallEntry
    /\ PairIdle
    /\ EntitiesIdle
    /\ ColorIdle
    /\ ValidateIdle
    /\ GenerateIdle
    /\ user_input = [text |-> UserText, conversation_id |-> NoConversationId]
    /\ options = [max_tool_call_iterations |-> 0, llm_hass_api |-> TRUE,
                  remember_conversation |-> TRUE, refresh_system_prompt |-> FALSE]
    /\ chat_log = <<>>
    /\ earlier_turns = <<>>
    /\ call_no = 1
    /\ next_addr = 1

\* lines 110-113: the first check; the lock object is created on first use
EnsureEnter(c) ==
    /\ client_pc[c] = "start"
    /\ IF ClientMissing(bedrock_runtime)
       THEN /\ client_pc' = [client_pc EXCEPT ![c] = "acquire"]
            /\ UNCHANGED client_seen
       ELSE /\ client_pc' = [client_pc EXCEPT ![c] = "returned"]
            /\ client_seen' = [client_seen EXCEPT ![c] = bedrock_runtime]
    /\ UNCHANGED <<client_lock, factory_runs, created, bedrock_runtime>>
    /\ UNCHANGED <<convvars, toolvars, trimvars, pairvars, unitvars>>

\* lines 115-121: the lock is taken and the check repeated; the caller then
\* either suspends on the executor job or leaves the lock
LockAcquired(c) ==
    /\ client_pc[c] = "acquire"
    /\ client_lock = 0
    /\ IF ClientStillMissing(bedrock_runtime)
       THEN /\ client_lock' = c
            /\ factory_runs' = factory_runs + 1
            /\ client_pc' = [client_pc EXCEPT ![c] = "executor"]
            /\ UNCHANGED client_seen
       ELSE /\ client_pc' = [client_pc EXCEPT ![c] = "returned"]
            /\ client_seen' = [client_seen EXCEPT ![c] = bedrock_runtime]
            /\ UNCHANGED <<client_lock, factory_runs>>
    /\ UNCHANGED <<created, bedrock_runtime>>
    /\ UNCHANGED <<convvars, toolvars, trimvars, pairvars, unitvars>>

\* lines 119-121: _create_bedrock_client returned; the handle is stored and
\* the lock released
FactoryReturns(c) ==
    /\ client_pc[c] = "executor"
    /\ bedrock_runtime' = ClientHandle(factory_runs)
    /\ created' = Append(created, ClientHandle(factory_runs))
    /\ client_lock' = 0
    /\ client_pc' = [client_pc EXCEPT ![c] = "returned"]
    /\ client_seen' = [client_seen EXCEPT ![c] = ClientHandle(factory_runs)]
    /\ UNCHANGED factory_runs
    /\ UNCHANGED <<convvars, toolvars, trimvars, pairvars, unitvars>>

\* mutant: the exception leaves _ensure_client with the lock still held
FactoryRaisesHoldingLock(c) ==
    /\ client_pc[c] = "executor"
    /\ client_pc' = [client_pc EXCEPT ![c] = "raised"]
    /\ UNCHANGED <<client_lock, factory_runs, created, client_seen, bedrock_runtime>>
    /\ UNCHANGED <<convvars, toolvars, trimvars, pairvars, unitvars>>

\* _create_bedrock_client raised: the exception leaves _ensure_client through
\* the "async with", which releases the lock
FactoryRaises(c) ==
    /\ client_pc[c] = "executor"
    /\ client_lock' = 0
    /\ client_pc' = [client_pc EXCEPT ![c] = "raised"]
    /\ UNCHANGED <<factory_runs, created, client_seen, bedrock_runtime>>
    /\ UNCHANGED <<convvars, toolvars, trimvars, pairvars, unitvars>>

NextClient ==
    \E c \in Callers :
        \/ EnsureEnter(c)
        \/ LockAcquired(c)
        \/ FactoryReturns(c)
        \/ FactoryRaises(c)

SpecClient == InitClient /\ [][NextClient]_vars


\* ================================================================ claims

\* the tool_use blocks of a response, in order
ToolUseBlocksOf(content) == SelectSeq(content, LAMBDA b : b.type = "tool_use")

\* the backend answered with stop_reason "tool_use" and at least one tool_use block
IsToolRound(reply) ==
    /\ reply.kind = "response"
    /\ reply.stop_reason = "tool_use"
    /\ ToolUseBlocksOf(reply.content) /= <<>>

\* the backend answered with a stop_reason, and not with a tool round
IsCompletion(reply) ==
    /\ reply.kind = "response"
    /\ reply.stop_reason /= NoStopReason
    /\ ~IsToolRound(reply)

RECURSIVE BlocksOfRounds(_)
\* the tool_use blocks of the first r replies, in order
BlocksOfRounds(r) ==
    IF r = 0 THEN <<>>
    ELSE BlocksOfRounds(r - 1) \o ToolUseBlocksOf(replies[r].content)

\* the tool_use blocks of the rounds whose dispatch is complete
DispatchedBlocks == BlocksOfRounds(tool_iterations)

\* the ToolResultContent turns of the conversation, in order
ToolResultTurns == SelectSeq(message_history, LAMBDA t : t.type = "tool_result")

\* the preparation succeeded: the loop was entered
Prepared == message_history /= <<>>

Terminated == pc \in {"done", "raised"}

LastReply == replies[Len(replies)]

LastMessage(request) == request.messages[Len(request.messages)]

\* C1: with a backend that answers every request with stop_reason "tool_use"
\* and at least one tool_use block, async_process never hangs and never
\* raises, issues at most N+1 backend calls and, when it returns, has issued
\* exactly N+1 calls and returns the fixed "couldn't complete" speech
\* (N = max_tool_call_iterations).
C1_AlwaysToolUseStopsAtCeiling ==
    (Prepared /\ \A i \in 1..Len(replies) : IsToolRound(replies[i])) =>
        /\ pc /= "raised"
        /\ backend_calls <= options.max_tool_call_iterations + 1
        /\ ~Terminated => ENABLED Next
        /\ pc = "done" =>
              /\ backend_calls = options.max_tool_call_iterations + 1
              /\ result.kind = "speech"
              /\ result.text = MaxIterationsSpeech

C1_Witness ==
    /\ pc = "done"
    /\ options.max_tool_call_iterations = MaxIter
    /\ backend_calls = MaxIter + 1
    /\ Len(replies) = MaxIter + 1
    /\ \A i \in 1..Len(replies) : IsToolRound(replies[i])
    /\ result.text = MaxIterationsSpeech

\* C2: the ToolResultContent appended for a tool_use block that carries an id
\* has that id as its tool_call_id, whether the tool returned, raised or
\* timed out.
C2_ToolResultCarriesBackendId ==
    \A i \in 1..Len(DispatchedBlocks) :
        DispatchedBlocks[i].id /= NoId =>
            /\ i <= Len(ToolResultTurns)
            /\ ToolResultTurns[i].tool_call_id = DispatchedBlocks[i].id

C2_Witness ==
    /\ Len(ToolResultTurns) = Len(DispatchedBlocks)
    /\ Len(tool_log) = Len(DispatchedBlocks)
    /\ \A o \in {"ok", "ValueError", "TimeoutError"} :
          \E i \in 1..Len(DispatchedBlocks) :
              /\ tool_log[i].outcome = o
              /\ DispatchedBlocks[i].id /= NoId
              /\ ToolResultTurns[i].tool_call_id = DispatchedBlocks[i].id

\* C3: in every request, every tool_result block's tool_use_id is the id of a
\* tool_use block of a preceding assistant message of the request, and the
\* tool_use blocks carry the ids the backend supplied.
C3_ToolResultsReferenceToolUse ==
    \A j \in 1..Len(requests) :
        \A m \in 1..Len(requests[j].messages) :
            \A b \in 1..Len(requests[j].messages[m].content) :
                LET block == requests[j].messages[m].content[b]
                IN block.type = "tool_result" =>
                      \E k \in 1..(m - 1) :
                          /\ requests[j].messages[k].role = "assistant"
                          /\ \E c \in 1..Len(requests[j].messages[k].content) :
                                LET use == requests[j].messages[k].content[c]
                                IN /\ use.type = "tool_use"
                                   /\ use.id = block.tool_use_id


\* the index in tool_log before the first tool call of round r
RoundOffset(r) == Len(BlocksOfRounds(r - 1))

\* the text of a rendered tool_result block holds the JSON key "error"
RendersError(block) ==
    /\ block.type = "tool_result"
    /\ \E k \in 1..(Len(block.content[1].text) - 1) :
          /\ block.content[1].text[k] = "error"
          /\ block.content[1].text[k + 1] = ":"

\* C4: every dispatched tool_use block has exactly one ToolResultContent, in
\* the order of the blocks, and the request that follows a tool round ends
\* with one tool_result block per tool_use block of the response, in order.
C4_OneResultPerToolUseInOrder ==
    /\ Len(ToolResultTurns) = Len(DispatchedBlocks)
    /\ Len(tool_log) = Len(DispatchedBlocks)
    /\ \A i \in 1..Len(DispatchedBlocks) :
          /\ ToolResultTurns[i].tool_name = DispatchedBlocks[i].name
          /\ ToolResultTurns[i].tool_call_id =
                IF DispatchedBlocks[i].id /= NoId THEN DispatchedBlocks[i].id
                ELSE LocalId(tool_log[i].call.addr)
          /\ ToolResultTurns[i].tool_result = ToolResultOf(tool_log[i].outcome)
    /\ \A j \in 2..Len(requests) :
          LET blocks == ToolUseBlocksOf(replies[j - 1].content)
              last == LastMessage(requests[j])
          IN /\ last.role = "user"
             /\ Len(last.content) = Len(blocks)
             /\ \A i \in 1..Len(blocks) :
                   /\ last.content[i].type = "tool_result"
                   /\ last.content[i].tool_use_id =
                         ToolResultTurns[RoundOffset(j - 1) + i].tool_call_id

C4_Witness ==
    /\ Len(requests) >= 2
    /\ Len(ToolUseBlocksOf(replies[1].content)) = 2
    /\ Len(LastMessage(requests[2]).content) = 2
    /\ tool_log[1].outcome = "HomeAssistantError"
    /\ tool_log[2].outcome = "ok"
    /\ ToolResultTurns[1].tool_call_id /= ToolResultTurns[2].tool_call_id

\* the tool calls of the last reply have been executed and one of them failed
LastRoundFailed ==
    /\ replies /= <<>>
    /\ IsToolRound(LastReply)
    /\ pc /= "dispatch"
    /\ \E i \in (RoundOffset(Len(replies)) + 1)..Len(tool_log) : tool_log[i].outcome /= "ok"

\* C5: a tool call that raises or times out does not make async_process fail:
\* its ToolResultContent has an "error" field, the round is completed, and
\* unless the iteration ceiling is reached the next backend call is issued
\* with the error result in its request.
C5_ToolFailureBecomesErrorResult ==
    /\ \A i \in 1..Len(tool_log) :
          tool_log[i].outcome /= "ok" =>
              /\ i <= Len(ToolResultTurns)
              /\ HasKey(ToolResultTurns[i].tool_result, "error")
    /\ LastRoundFailed =>
          /\ pc \in {"loop", "done"}
          /\ result.kind /= "error"
          /\ tool_iterations = Len(replies)
          /\ (pc = "loop" /\ tool_iterations <= options.max_tool_call_iterations) =>
                (ENABLED BedrockResponds /\ ~ENABLED MaxIterationsReached)
    /\ \A j \in 2..Len(requests) :
          \A i \in 1..Len(ToolUseBlocksOf(replies[j - 1].content)) :
              tool_log[RoundOffset(j - 1) + i].outcome /= "ok" =>
                  RendersError(LastMessage(requests[j]).content[i])

C5_Witness ==
    /\ Len(replies) = 2
    /\ Len(requests) = 2
    /\ tool_log[1].outcome = "ValueError"
    /\ RendersError(LastMessage(requests[2]).content[1])
    /\ replies[2].kind = "response"

\* C6: a response with a stop_reason other than "tool_use", or with
\* stop_reason "tool_use" and no tool_use block, ends async_process with a
\* speech result: it is the last backend call and none of its tool_use blocks
\* is executed.
C6_CompletionEndsWithSpeech ==
    \A j \in 1..Len(replies) :
        IsCompletion(replies[j]) =>
            /\ j = Len(replies)
            /\ pc = "done"
            /\ result.kind = "speech"
            /\ backend_calls = j
            /\ Len(tool_log) = RoundOffset(j)
            /\ ~ENABLED Next

C6_Witness ==
    /\ Len(replies) = 2
    /\ LastReply.kind = "response"
    /\ LastReply.stop_reason = "end_turn"
    /\ Len(ToolUseBlocksOf(LastReply.content)) = 1
    /\ pc = "done"
    /\ result.kind = "speech"
    /\ Len(tool_log) = RoundOffset(2)

\* C7: a backend call that fails with HomeAssistantError (the timeout
\* included) ends async_process with an error result: it is the last backend
\* call, it is not retried and no tool call follows.
C7_BackendErrorEndsWithError ==
    \A j \in 1..Len(replies) :
        (replies[j].kind = "raised" /\ replies[j].exc = "HomeAssistantError") =>
            /\ j = Len(replies)
            /\ pc = "done"
            /\ result.kind = "error"
            /\ backend_calls = j
            /\ Len(tool_log) = RoundOffset(j)
            /\ ~ENABLED Next

C7_Witness ==
    /\ Len(replies) = 2
    /\ LastReply.kind = "raised"
    /\ LastReply.failure = "TimeoutError"
    /\ LastReply.exc = "HomeAssistantError"
    /\ pc = "done"
    /\ result.kind = "error"
    /\ backend_calls = 2

\* C8: every failure inside async_generate leaves it as a HomeAssistantError,
\* and no backend failure leaves async_process as an exception.
C8_OnlyHomeAssistantErrorEscapes ==
    /\ \A j \in 1..Len(replies) :
          replies[j].kind = "raised" => replies[j].exc = "HomeAssistantError"
    /\ pc /= "raised"

\* C9: on every terminal path async_process returns a ConversationResult
\* whose conversation_id is the conversation_id of the input.
C9_EveryPathReturnsConversationId ==
    Terminated =>
        /\ result.kind \in {"speech", "error"}
        /\ result.conversation_id = user_input.conversation_id

\* the service of the tool arguments is "d.a" with an allow-listed domain d
\* and an allow-listed service a, and a target device is given
IsAllowedServiceCall(args) ==
    /\ HasKey(args, "service")
    /\ HasKey(args, "target_device")
    /\ Len(SplitDot(DictGet(args, "service"))) = 2
    /\ SplitDot(DictGet(args, "service"))[1] \in SERVICE_TOOL_ALLOWED_DOMAINS
    /\ SplitDot(DictGet(args, "service"))[2] \in SERVICE_TOOL_ALLOWED_SERVICES

\* C10: for an allow-listed domain and service, _run invokes the service
\* exactly once with (domain, service, entity_id = target_device) and, when
\* the call is acknowledged, returns result = "success" with the service and
\* the target.
C10_AllowedServiceInvokesBackend ==
    (run_pc /= "ready" /\ IsAllowedServiceCall(run_args)) =>
        /\ Len(service_calls) = 1
        /\ service_calls[1].domain = SplitDot(DictGet(run_args, "service"))[1]
        /\ service_calls[1].service = SplitDot(DictGet(run_args, "service"))[2]
        /\ DictGet(service_calls[1].service_data, ATTR_ENTITY_ID)
              = DictGet(run_args, "target_device")
        /\ service_calls[1].outcome = "ack" =>
              /\ run_pc = "returned"
              /\ DictGet(run_result, "result") = <<"success">>
              /\ DictGet(run_result, "service") = DictGet(run_args, "service")
              /\ DictGet(run_result, "target") = DictGet(run_args, "target_device")

\* the tool arguments name a service "d.a" and a target device
WellFormedCall(args) ==
    /\ HasKey(args, "service")
    /\ HasKey(args, "target_device")
    /\ Len(SplitDot(DictGet(args, "service"))) = 2

RequestedDomain(args) == SplitDot(DictGet(args, "service"))[1]

RequestedService(args) == SplitDot(DictGet(args, "service"))[2]

\* _run returned a dict with result = "error"
ReturnedError ==
    /\ run_pc = "returned"
    /\ HasKey(run_result, "result")
    /\ DictGet(run_result, "result") = <<"error">>
    /\ HasKey(run_result, "error")

\* C11: _run invokes the service backend only for a domain of the domain
\* allow-list and a service of the service allow-list; when either is not
\* on its list _run returns result = "error" and makes no service call, also
\* when the domain alone is allowed.
C11_BackendOnlyForAllowedPair ==
    (run_pc /= "ready" /\ WellFormedCall(run_args)) =>
        /\ service_calls /= <<>> =>
              /\ RequestedDomain(run_args) \in SERVICE_TOOL_ALLOWED_DOMAINS
              /\ RequestedService(run_args) \in SERVICE_TOOL_ALLOWED_SERVICES
        /\ (\/ RequestedDomain(run_args) \notin SERVICE_TOOL_ALLOWED_DOMAINS
            \/ RequestedService(run_args) \notin SERVICE_TOOL_ALLOWED_SERVICES) =>
              /\ ReturnedError
              /\ service_calls = <<>>

\* an allowed domain with a service that is on no list is refused
C11_Witness ==
    /\ WellFormedCall(run_args)
    /\ RequestedDomain(run_args) \in SERVICE_TOOL_ALLOWED_DOMAINS
    /\ RequestedService(run_args) \notin SERVICE_TOOL_ALLOWED_SERVICES
    /\ ReturnedError
    /\ service_calls = <<>>

\* entity_id = target_device followed by the supplied arguments whose name is
\* in ALLOWED_SERVICE_CALL_ARGUMENTS, in the order supplied
ExpectedServiceData(args) ==
    <<<<ATTR_ENTITY_ID, DictGet(args, "target_device")>>>>
    \o SelectSeq(args, LAMBDA kv : kv[1] \in ALLOWED_SERVICE_CALL_ARGUMENTS)

\* C12: the service data _run hands to the service backend is entity_id =
\* target_device plus every supplied argument of
\* ALLOWED_SERVICE_CALL_ARGUMENTS with its value, and nothing else; for an
\* allow-listed call that data does reach the backend.
C12_ServiceDataIsFiltered ==
    run_pc /= "ready" =>
        /\ \A i \in 1..Len(service_calls) :
              service_calls[i].service_data = ExpectedServiceData(run_args)
        /\ IsAllowedServiceCall(run_args) => Len(service_calls) = 1

\* C13: for a service string that does not split into exactly a domain and
\* an action, _run returns an error result, does not raise and makes no
\* service call.
C13_MalformedServiceReturnsError ==
    (/\ run_pc /= "ready"
     /\ HasKey(run_args, "service")
     /\ Len(SplitDot(DictGet(run_args, "service"))) /= 2) =>
        /\ ReturnedError
        /\ service_calls = <<>>

\* C14: no failure of the service call leaves _run as an exception: a failed
\* call is returned as result = "error", an acknowledged call as result =
\* "success".
C14_BackendFailureIsReturned ==
    /\ (run_pc /= "ready" /\ service_calls /= <<>>) => run_pc = "returned"
    /\ (run_pc /= "ready" /\ IsAllowedServiceCall(run_args)) =>
          /\ Len(service_calls) = 1
          /\ HasKey(run_result, "result")
          /\ DictGet(run_result, "result") =
                IF service_calls[1].outcome = "ack" THEN <<"success">> ELSE <<"error">>

\* the tool calls of the last reply have been executed and one of them names
\* a tool that is not in the catalog
LastRoundHadUnknownTool ==
    /\ replies /= <<>>
    /\ IsToolRound(LastReply)
    /\ pc /= "dispatch"
    /\ \E i \in 1..Len(LastReply.content) :
          /\ LastReply.content[i].type = "tool_use"
          /\ LastReply.content[i].name \notin CatalogTools

\* C15: a requested tool whose name is not in the catalog gets a
\* ToolResultContent with that name, the backend's call id and an "error"
\* result; no tool is run for it, the round is completed without an
\* exception and the loop goes on to the next backend call.
C15_UnknownToolGetsErrorResult ==
    /\ \A i \in 1..Len(DispatchedBlocks) :
          DispatchedBlocks[i].name \notin CatalogTools =>
              /\ i <= Len(ToolResultTurns)
              /\ ToolResultTurns[i].tool_name = DispatchedBlocks[i].name
              /\ DispatchedBlocks[i].id /= NoId =>
                    ToolResultTurns[i].tool_call_id = DispatchedBlocks[i].id
              /\ HasKey(ToolResultTurns[i].tool_result, "error")
              /\ ~HasKey(ToolResultTurns[i].tool_result, "result")
              /\ tool_log[i].outcome /= "ok"
    /\ LastRoundHadUnknownTool =>
          /\ pc \in {"loop", "done"}
          /\ raised = "none"
          /\ result.kind /= "error"
          /\ tool_iterations = Len(replies)
          /\ (pc = "loop" /\ tool_iterations <= options.max_tool_call_iterations) =>
                ENABLED BedrockResponds

C15_Witness ==
    /\ llm_api = "loaded"
    /\ Len(replies) = 2
    /\ Len(replies[1].content) = 1
    /\ replies[1].content[1].type = "tool_use"
    /\ replies[1].content[1].name = UnknownToolName
    /\ replies[1].content[1].id /= NoId
    /\ ToolResultTurns[1].tool_name = UnknownToolName
    /\ ToolResultTurns[1].tool_call_id = replies[1].content[1].id
    /\ replies[2].kind = "response"

\* the backend answered without a stop_reason field
LacksStopReason(reply) ==
    /\ reply.kind = "response"
    /\ reply.stop_reason = NoStopReason

\* C16: a response without stop_reason ends async_process with an error
\* result: no AssistantContent is recorded for it, none of its tool_use
\* blocks is executed and no further backend call is made.
C16_MissingStopReasonIsError ==
    \A j \in 1..Len(replies) :
        LacksStopReason(replies[j]) =>
            /\ j = Len(replies)
            /\ backend_calls = j
            /\ pc = "done"
            /\ result.kind = "error"
            /\ message_history[Len(message_history)].type \in {"user", "tool_result"}
            /\ tool_iterations = j - 1
            /\ Len(tool_log) = Len(BlocksOfRounds(j - 1))
            /\ ~ENABLED Next

\* a response without stop_reason that holds a tool_use block, after a tool round
C16_Witness ==
    /\ Len(replies) = 2
    /\ LacksStopReason(replies[2])
    /\ ~replies[2].has_error
    /\ ToolUseBlocksOf(replies[2].content) /= <<>>
    /\ pc = "done"
    /\ result.kind = "error"
    /\ Len(tool_log) = Len(ToolUseBlocksOf(replies[1].content))

\* C19: when the generation of the system prompt raises TemplateError,
\* async_process returns an error result whose message is the apology about
\* the template, and makes no backend call and no tool call.
C19_TemplateErrorEndsWithApology ==
    prompt_outcome = "TemplateError" =>
        /\ pc = "done"
        /\ raised = "none"
        /\ result.kind = "error"
        /\ result.text[1] = "Sorry, I had a problem with my template: "
        /\ backend_calls = 0
        /\ requests = <<>>
        /\ tool_log = <<>>
        /\ ~ENABLED Next

\* the prompt is refreshed for a remembered conversation and does not render
C19_Witness ==
    /\ prompt_outcome = "TemplateError"
    /\ options.remember_conversation
    /\ chat_log /= <<>>
    /\ llm_api = "loaded"
    /\ pc = "done"
    /\ result.kind = "error"
    /\ backend_calls = 0

\* C18: for a retention count n >= 1 the trimmed history has at most 2n+1
\* turns, its first turn is the first loaded turn, the other turns are the
\* most recent 2n loaded turns in their order, and a loaded history of at
\* most 2n+1 turns is unchanged.
C18_TrimKeepsFirstAndLatest ==
    (trim_pc = "done" /\ trim_n >= 1) =>
        LET n == trim_n
            len == Len(trim_loaded)
        IN /\ Len(trim_result) <= 2 * n + 1
           /\ len <= 2 * n + 1 => trim_result = trim_loaded
           /\ len > 2 * n + 1 =>
                 /\ Len(trim_result) = 2 * n + 1
                 /\ trim_result[1] = trim_loaded[1]
                 /\ \A k \in 1..(2 * n) :
                       trim_result[1 + k] = trim_loaded[len - 2 * n + k]

\* a history of six turns is cut to the first turn and the last two
C18_Witness ==
    /\ trim_pc = "done"
    /\ trim_n = 1
    /\ Len(trim_loaded) = 6
    /\ Len(trim_result) = 3
    /\ trim_result[1] = trim_loaded[1]
    /\ trim_result[3] = trim_loaded[6]

\* C20: for every interleaving of concurrent _ensure_client calls,
\* _create_bedrock_client succeeds at most once, no run of it is started
\* after it succeeded, and every call that returns sees the one handle it
\* created.
C20_ClientCreatedOnce ==
    /\ Len(created) <= 1
    /\ \A c \in DOMAIN client_pc :
          client_pc[c] = "executor" => created = <<>>
    /\ \A c \in DOMAIN client_pc :
          client_pc[c] = "returned" =>
              /\ client_seen[c] /= NoClient
              /\ created /= <<>>
              /\ client_seen[c] = created[1]
              /\ client_seen[c] = bedrock_runtime

\* the first run of the factory fails, the second succeeds, and two callers
\* return with the handle
C20_Witness ==
    /\ client_pc[1] = "raised"
    /\ client_pc[2] = "returned"
    /\ client_pc[3] = "returned"
    /\ factory_runs = 2
    /\ Len(created) = 1
    /\ client_seen[2] = client_seen[3]
    /\ client_seen[2] = ClientHandle(2)

\* the history a call holds when it enters the loop, without the user turn
\* it appended itself
LoadedPart == SubSeq(message_history, 1, Len(message_history) - 1)

\* C17: with conversation memory enabled, the turns an async_process call
\* recorded (the user turn, the assistant turns and the tool-result turns)
\* are in the history the next call with the same conversation id loads,
\* also when the earlier call ended with a backend error.
C17_EarlierTurnsAreLoaded ==
    (/\ call_no >= 2
     /\ options.remember_conversation
     /\ pc = "loop"
     /\ backend_calls = 0) =>
        /\ Len(LoadedPart) >= Len(earlier_turns)
        /\ LastN(LoadedPart, Len(earlier_turns)) = earlier_turns

\* the assistant message of a request that ends with the results of a tool round
AssistantMessageOf(request) == request.messages[Len(request.messages) - 1]

\* the tool calls of the last reply have been executed and one of its
\* tool_use blocks came without an id
LastRoundLackedId ==
    /\ replies /= <<>>
    /\ IsToolRound(LastReply)
    /\ pc /= "dispatch"
    /\ \E i \in 1..Len(LastReply.content) :
          /\ LastReply.content[i].type = "tool_use"
          /\ LastReply.content[i].id = NoId

\* C21: a tool_use block without a backend id gets a locally generated id
\* that differs from the id of every other tool call of the response; the
\* tool_use block and the tool_result block rendered for it carry that same
\* id, the round is completed and a further backend call is issued.
C21_MissingIdFallsBackToLocalId ==
    /\ \A j \in 2..Len(requests) :
          LET blocks == ToolUseBlocksOf(replies[j - 1].content)
              uses == ToolUseBlocksOf(AssistantMessageOf(requests[j]).content)
              results == LastMessage(requests[j]).content
          IN \A i \in 1..Len(blocks) :
                blocks[i].id = NoId =>
                    /\ Len(uses) = Len(blocks)
                    /\ Len(results) = Len(blocks)
                    /\ AssistantMessageOf(requests[j]).role = "assistant"
                    /\ results[i].type = "tool_result"
                    /\ results[i].tool_use_id.src = "local"
                    /\ results[i].tool_use_id = uses[i].id
                    /\ \A k \in 1..Len(blocks) :
                          k /= i =>
                              /\ uses[k].id /= uses[i].id
                              /\ results[k].tool_use_id /= results[i].tool_use_id
    /\ LastRoundLackedId =>
          /\ pc \in {"loop", "done"}
          /\ result.kind /= "error"
          /\ tool_iterations = Len(replies)
          /\ (pc = "loop" /\ tool_iterations <= options.max_tool_call_iterations) =>
                (ENABLED BedrockResponds /\ ~ENABLED MaxIterationsReached)

\* two tool_use blocks without an id, executed, and the second backend call answered
C21_Witness ==
    /\ Len(replies) = 2
    /\ Len(requests) = 2
    /\ Len(replies[1].content) = 2
    /\ \A i \in 1..2 : /\ replies[1].content[i].type = "tool_use"
                       /\ replies[1].content[i].id = NoId
    /\ LastMessage(requests[2]).content[1].tool_use_id
          = AssistantMessageOf(requests[2]).content[1].id
    /\ LastMessage(requests[2]).content[1].tool_use_id
          /= LastMessage(requests[2]).content[2].tool_use_id
    /\ replies[2].kind = "response"
    /\ replies[2].stop_reason = "end_turn"

\* the texts of the user turns of a conversation: its input and its chat log
OwnUserTexts(call) ==
    {call.user_input.text}
    \cup {call.chat_log[i].content :
            i \in {k \in 1..Len(call.chat_log) : call.chat_log[k].type = "user"}}

\* the texts of the assistant turns of a conversation: its chat log and the
\* answers of the backend to its own requests
OwnAssistantTexts(call) ==
    {call.chat_log[i].content :
        i \in {k \in 1..Len(call.chat_log) : call.chat_log[k].type = "assistant"}}
    \cup {Strip(ParseResponse(call.replies[j].content, 0).response_text) :
            j \in 1..Len(call.replies)}

\* the system prompts of a conversation: the generated one and the stored one
OwnSystemTexts(call) ==
    {<<"system prompt">>}
    \cup {call.chat_log[i].content :
            i \in {k \in 1..Len(call.chat_log) : call.chat_log[k].type = "system"}}

\* a request of a call holds turns of its own conversation only
RequestIsOwn(call, request) ==
    /\ request.has_system => request.system \in OwnSystemTexts(call)
    /\ \A m \in 1..Len(request.messages) :
          \A b \in 1..Len(request.messages[m].content) :
              LET block == request.messages[m].content[b]
              IN /\ (block.type = "text" /\ request.messages[m].role = "user") =>
                        block.text \in OwnUserTexts(call)
                 /\ (block.type = "text" /\ request.messages[m].role = "assistant") =>
                        block.text \in OwnAssistantTexts(call)
                 /\ block.type = "tool_use" =>
                        \E i \in 1..Len(call.tool_log) :
                            block.id = LocalId(call.tool_log[i].call.addr)
                 /\ block.type = "tool_result" =>
                        \E i \in 1..Len(call.tool_log) :
                            block.tool_use_id
                              \in {LocalId(call.tool_log[i].call.addr)}
                                  \cup {BackendId(n) : n \in 0..((MaxIter + 2) * (MaxBlocks + 1))}

\* the result async_process returns for the answers of the backend to the
\* requests of one call
ResultAlone(call) ==
    LET cid == call.user_input.conversation_id
    IN IF call.replies = <<>>
       THEN IF call.prompt_outcome = "TemplateError"
            THEN ErrorResult(<<"Sorry, I had a problem with my template: ",
                               "TemplateError">>, cid)
            ELSE ErrorResult(<<"Error preparing LLM API: ", "HomeAssistantError">>, cid)
       ELSE LET last == call.replies[Len(call.replies)]
            IN CASE last.kind = "raised" ->
                      ErrorResult(<<"Sorry, there was an error: ">>
                                  \o AsyncGenerateRaises(last.failure).message, cid)
                 [] LacksStopReason(last) ->
                      ErrorResult(IF last.has_error
                                  THEN <<"Bedrock API error: ", "error">>
                                  ELSE <<"Sorry, I received an unexpected response. Please try again.">>,
                                  cid)
                 [] IsToolRound(last) -> SpeechResult(MaxIterationsSpeech, cid)
                 [] OTHER ->
                      SpeechResult(Strip(ParseResponse(last.content, 0).response_text), cid)

\* a call is not touched by the other call
CallIsIsolated(call) ==
    /\ \A j \in 1..Len(call.requests) :
          /\ call.requests[j] /= NoRequest =>
                /\ call.requests[j].messages /= <<>>
                /\ RequestIsOwn(call, call.requests[j])
          /\ (j = 1 /\ call.requests[j] /= NoRequest) =>
                LastMessage(call.requests[j]).content
                    = <<TextBlock(call.user_input.text)>>
    /\ call.pc = "done" => call.result = ResultAlone(call)
    /\ call.pc = "raised" =>
          /\ call.replies /= <<>>
          /\ call.replies[Len(call.replies)].failure = "ClientFactoryError"

\* C22: for every interleaving of two async_process calls with different
\* conversation ids on one agent, every backend request of a call holds only
\* turns of its own conversation, and each call returns the result that the
\* backend's answers to its own requests determine.
C22_ConcurrentCallsAreIsolated ==
    parked /= <<>> =>
        /\ CallIsIsolated(CallLocals)
        /\ CallIsIsolated(parked)

\* the second call ran to its end while the first call, which did a tool
\* round, was in flight
C22_Witness ==
    /\ parked /= <<>>
    /\ running = 1
    /\ pc = "done"
    /\ parked.pc = "done"
    /\ Len(requests) = 1
    /\ IsToolRound(replies[1])
    /\ tool_log /= <<>>
    /\ result.kind = "speech"
    /\ parked.result.kind = "speech"
    /\ parked.result.conversation_id = "other_conversation"
    /\ Len(parked.requests) = 1
    /\ LastMessage(parked.requests[1]).content = <<TextBlock(OtherUserText)>>

\* ---------------- C26

\* the statement as the specification words it: after a tool-dispatch round
\* has incremented the iteration counter, if the counter has reached the
\* configured maximum, the next step of async_process is the return of the
\* fixed apologetic message, with no further backend call and no further tool
\* call.
C26_NoBackendCallAtMaximum ==
    [][(/\ pc = "loop"
        /\ tool_iterations >= 1
        /\ tool_iterations = options.max_tool_call_iterations)
       => (/\ backend_calls' = backend_calls
           /\ tool_log' = tool_log
           /\ pc' = "done"
           /\ result' = SpeechResult(MaxIterationsSpeech,
                                     ResultConversationId(user_input)))]_vars

\* C26: after a tool-dispatch round has incremented the iteration counter, if
\* the counter has passed the configured maximum, the next step of
\* async_process is the return of the fixed apologetic message, with no
\* further backend call and no further tool call; while the counter is at most
\* the maximum (equal included) the loop body runs again and issues a backend
\* call.
C26_NoBackendCallPastMaximum ==
    [][pc = "loop"
       => IF tool_iterations > options.max_tool_call_iterations
          THEN /\ backend_calls' = backend_calls
               /\ tool_log' = tool_log
               /\ pc' = "done"
               /\ result' = SpeechResult(MaxIterationsSpeech,
                                         ResultConversationId(user_input))
          ELSE backend_calls' = backend_calls + 1]_vars

C26_Witness ==
    /\ pc = "done"
    /\ result = SpeechResult(MaxIterationsSpeech, ResultConversationId(user_input))
    /\ options.max_tool_call_iterations >= 1
    /\ tool_iterations = options.max_tool_call_iterations + 1
    /\ backend_calls = options.max_tool_call_iterations + 1
    /\ Len(tool_log) >= tool_iterations

\* ---------------- C27

\* the entries the last tool-dispatch round added to tool_log
LastRoundLog ==
    SubSeq(tool_log, Len(tool_log) - Len(tool_calls) + 1, Len(tool_log))

\* C27: in a tool-dispatch round with k tool calls all k calls are attempted,
\* in the order of the response, whatever the outcome of the earlier ones: once
\* the round is over, the last k attempts are the k calls of the round in
\* order, each with a tool-result turn in the history, also when an earlier
\* call raised or timed out.
C27_AllToolCallsAttempted ==
    (pc /= "dispatch" /\ tool_calls /= <<>>)
    => /\ Len(tool_log) >= Len(tool_calls)
       /\ \A i \in 1..Len(tool_calls) : LastRoundLog[i].call = tool_calls[i]
       /\ pc = "loop"
          => /\ Len(message_history) >= Len(tool_calls)
             /\ \A i \in 1..Len(tool_calls) :
                  LET turn == message_history[Len(message_history)
                                              - Len(tool_calls) + i]
                  IN /\ turn.type = "tool_result"
                     /\ turn.tool_call_id = ToolCallId(tool_use_ids, tool_calls[i])

C27_Witness ==
    /\ pc = "loop"
    /\ Len(tool_calls) = 2
    /\ LastRoundLog[1].outcome \in {"TimeoutError", "HomeAssistantError", "ValueError"}
    /\ LastRoundLog[2].call = tool_calls[2]
    /\ LastRoundLog[2].outcome = "ok"

\* ---------------- C29

\* the history async_process has loaded and trimmed when it reaches line 152
LoadedHistory == IF options.remember_conversation THEN chat_log ELSE <<>>

\* the SystemContent built from the rendered prompt (line 158)
GeneratedSystemTurn == SystemContent(<<"system prompt">>)

\* async_process left before line 152, with the error of the LLM API
EndedBeforePrompt ==
    /\ pc = "done"
    /\ result.kind = "error"
    /\ result.text[1] = "Error preparing LLM API: "

\* C29: async_process generates the system prompt exactly when the loaded
\* history is empty or refresh_system_prompt is set.  On an empty history the
\* new SystemTurn becomes the only element; on a non-empty history it replaces
\* element 0 and leaves every other turn and the length unchanged; when
\* neither condition holds no prompt is generated and the history is left
\* unchanged.  The user turn is appended after that.
C29_SystemPromptGeneratedWhenDue ==
    [][(pc = "idle" /\ ~EndedBeforePrompt')
       => /\ (prompt_outcome' /= "none")
             <=> (LoadedHistory = <<>> \/ options.refresh_system_prompt)
          /\ pc' = "loop"
             => LET before == SubSeq(message_history', 1, Len(message_history') - 1)
                IN /\ message_history'[Len(message_history')]
                        = UserContent(user_input.text)
                   /\ IF LoadedHistory = <<>>
                      THEN before = <<GeneratedSystemTurn>>
                      ELSE IF options.refresh_system_prompt
                      THEN /\ Len(before) = Len(LoadedHistory)
                           /\ before[1] = GeneratedSystemTurn
                           /\ \A i \in 2..Len(before) : before[i] = LoadedHistory[i]
                      ELSE before = LoadedHistory]_vars

C29_Witness ==
    /\ pc = "loop"
    /\ backend_calls = 0
    /\ options.refresh_system_prompt
    /\ LoadedHistory /= <<>>
    /\ LoadedHistory[1] /= GeneratedSystemTurn
    /\ prompt_outcome = "rendered"
    /\ Len(message_history) = Len(LoadedHistory) + 1
    /\ message_history[1] = GeneratedSystemTurn
    /\ message_history[2] = LoadedHistory[2]

\* ---------------- C30

AnswersEarlierCall(h, i) ==
    \E j \in 1..(i - 1) :
        /\ h[j].type = "assistant"
        /\ \E k \in 1..Len(h[j].tool_calls) :
              ToolCallId({}, h[j].tool_calls[k]) = h[i].tool_call_id

\* the history consists of the system turn and whole groups: the first turn
\* after the system turn is a user turn and every tool result follows the
\* assistant turn whose tool call it answers
WholeGroups(h) ==
    /\ Len(h) >= 1 => h[1].type = "system"
    /\ Len(h) >= 2 => h[2].type = "user"
    /\ \A i \in 1..Len(h) : h[i].type = "tool_result" => AnswersEarlierCall(h, i)

\* C28: the trimming step drops turns only as whole user/assistant/tool-result
\* groups: for a loaded history made of whole groups, the first retained
\* non-system turn is a user turn and every retained tool-result turn is
\* preceded in the retained history by the assistant turn whose tool call it
\* answers.
C28_TrimDropsWholeGroups ==
    (trim_pc = "done" /\ WholeGroups(trim_loaded)) => WholeGroups(trim_result)

\* ------------------------------------ specification of closest_color

\* CSS3_NAME_TO_RGB (utils.py, lines 9-12): the CSS3 colour names of the
\* webcolors library with their RGB triples, in the order of
\* webcolors.names(CSS3), which is alphabetical.  An excerpt of the 147 names;
\* CSS3 gives some colours two names (aqua and cyan, fuchsia and magenta,
\* gray and grey), and the palette holds both.
CSS3_NAME_TO_RGB ==
    << [name |-> "aqua",    rgb |-> <<0, 255, 255>>],
       [name |-> "black",   rgb |-> <<0, 0, 0>>],
       [name |-> "blue",    rgb |-> <<0, 0, 255>>],
       [name |-> "cyan",    rgb |-> <<0, 255, 255>>],
       [name |-> "fuchsia", rgb |-> <<255, 0, 255>>],
       [name |-> "gray",    rgb |-> <<128, 128, 128>>],
       [name |-> "green",   rgb |-> <<0, 128, 0>>],
       [name |-> "grey",    rgb |-> <<128, 128, 128>>],
       [name |-> "lime",    rgb |-> <<0, 255, 0>>],
       [name |-> "magenta", rgb |-> <<255, 0, 255>>],
       [name |-> "maroon",  rgb |-> <<128, 0, 0>>],
       [name |-> "navy",    rgb |-> <<0, 0, 128>>],
       [name |-> "red",     rgb |-> <<255, 0, 0>>],
       [name |-> "white",   rgb |-> <<255, 255, 255>>],
       [name |-> "yellow",  rgb |-> <<255, 255, 0>>] >>

PaletteNames == {CSS3_NAME_TO_RGB[i].name : i \in 1..Len(CSS3_NAME_TO_RGB)}

\* the values a component of the requested colour takes in the check
ColorLevels == {0, 64, 128, 192, 255}

RequestedColors == {<<r, g, b>> : r \in ColorLevels, g \in ColorLevels, b \in ColorLevels}

\* mutant: the blue component is left out of the distance
SquaredDistanceNoBlue(rgb, requested) ==
    (rgb[1] - requested[1]) * (rgb[1] - requested[1])
    + (rgb[2] - requested[2]) * (rgb[2] - requested[2])

\* rd + gd + bd (lines 20-23)
SquaredDistance(rgb, requested) ==
    (rgb[1] - requested[1]) * (rgb[1] - requested[1])
    + (rgb[2] - requested[2]) * (rgb[2] - requested[2])
    + (rgb[3] - requested[3]) * (rgb[3] - requested[3])

RECURSIVE min_colors(_, _)
\* The dict min_colors after the first k passes of the loop of lines 19-24:
\* min_colors[distance] = name replaces the name an earlier palette entry
\* stored under the same distance.
min_colors(k, requested) ==
    IF k = 0 THEN [d \in {} |-> ""]
    ELSE LET earlier == min_colors(k - 1, requested)
             dist == SquaredDistance(CSS3_NAME_TO_RGB[k].rgb, requested)
         IN [d \in (DOMAIN earlier) \cup {dist} |->
                IF d = dist THEN CSS3_NAME_TO_RGB[k].name ELSE earlier[d]]

\* closest_color (lines 15-26): min_colors[min(min_colors.keys())]
closest_color(requested) ==
    LET all == min_colors(Len(CSS3_NAME_TO_RGB), requested)
        least == CHOOSE d \in DOMAIN all : \A e \in DOMAIN all : d <= e
    IN all[least]

InitColor ==
    /\ color_pc = "ready"
    /\ requested_color \in RequestedColors
    /\ color_name = ""
    /\ ToolIdle
    /\ TrimIdle
    /\ ClientIdle
    /\ PairIdle
    /\ EntitiesIdle
    /\ ValidateIdle
    /\ GenerateIdle
    /\ CallEntry
    /\ user_input = [text |-> UserText, conversation_id |-> NoConversationId]
    /\ options = [max_tool_call_iterations |-> 0, llm_hass_api |-> TRUE,
                  remember_conversation |-> TRUE, refresh_system_prompt |-> FALSE]
    /\ chat_log = <<>>
    /\ earlier_turns = <<>>
    /\ call_no = 1
    /\ next_addr = 1
    /\ bedrock_runtime = NoClient

\* one call of closest_color
ClosestColorReturns ==
    /\ color_pc = "ready"
    /\ color_name' = closest_color(requested_color)
    /\ color_pc' = "returned"
    /\ UNCHANGED <<requested_color, entities_pc, hass_states, devices,
                   validate_pc, aws_outcomes, validate_result,
                   generate_pc, generate_args, request_body>>
    /\ UNCHANGED <<loopvars, toolvars, trimvars, clientvars, pairvars>>

NextColor == ClosestColorReturns

SpecColor == InitColor /\ [][NextColor]_vars

\* ---------------- C24

\* the statement as the specification words it: for every colour name n of the
\* palette, closest_color applied to the exact RGB triple of n returns n, and
\* closest_color returns a palette name for every RGB triple.
C24_ExactHitReturnsOwnName ==
    color_pc = "returned"
    => /\ color_name \in PaletteNames
       /\ \A i \in 1..Len(CSS3_NAME_TO_RGB) :
            CSS3_NAME_TO_RGB[i].rgb = requested_color
            => color_name = CSS3_NAME_TO_RGB[i].name

\* C24: closest_color returns a palette name for every RGB triple, the name
\* of a palette colour at the least distance from it; applied to the exact RGB
\* triple of a palette name n it returns a name of that very colour, which is
\* n or another name the palette gives to the same triple.
C24_ReturnsNameOfClosest ==
    color_pc = "returned"
    => /\ color_name \in PaletteNames
       /\ \E j \in 1..Len(CSS3_NAME_TO_RGB) :
            /\ CSS3_NAME_TO_RGB[j].name = color_name
            /\ \A i \in 1..Len(CSS3_NAME_TO_RGB) :
                 SquaredDistance(CSS3_NAME_TO_RGB[j].rgb, requested_color)
                 <= SquaredDistance(CSS3_NAME_TO_RGB[i].rgb, requested_color)
       /\ \A i \in 1..Len(CSS3_NAME_TO_RGB) :
            CSS3_NAME_TO_RGB[i].rgb = requested_color
            => \E j \in 1..Len(CSS3_NAME_TO_RGB) :
                 /\ CSS3_NAME_TO_RGB[j].name = color_name
                 /\ CSS3_NAME_TO_RGB[j].rgb = requested_color

\* the exact triple of aqua is named by the other name of that colour
C24_Witness ==
    /\ color_pc = "returned"
    /\ requested_color = <<0, 255, 255>>
    /\ color_name = "cyan"

\* --------------------- specification of validate_aws_credentials

\* a call that returned
CallOk == [class |-> "none", code |-> ""]

\* botocore's ClientError with e.response["Error"]["Code"] = code ("" when
\* the response carries no code)
ClientErrorWith(code) == [class |-> "ClientError", code |-> code]

\* what the client creation and list_foundation_models can raise
AwsExceptions ==
    {[class |-> "NoCredentialsError", code |-> ""],
     [class |-> "EndpointConnectionError", code |-> ""],
     [class |-> "ValueError", code |-> ""]}
    \cup {ClientErrorWith(code) :
            code \in {"UnrecognizedClientException", "AccessDeniedException",
                      "ThrottlingException", ""}}

\* the base classes of an exception class up to Exception:
\* NoCredentialsError and EndpointConnectionError derive from BotoCoreError
BaseClasses(class) ==
    CASE class \in {"NoCredentialsError", "EndpointConnectionError"} ->
            {class, "BotoCoreError", "Exception"}
      [] OTHER -> {class, "Exception"}

\* "except <handler> as e" matches the exception
Catches(handler, exc) == handler \in BaseClasses(exc.class)

\* the exception that leaves the try block (lines 69-83): what the client
\* creation raised or, when that returned, what list_foundation_models raised
RaisedInTry(outcomes) ==
    IF outcomes.create /= CallOk THEN outcomes.create ELSE outcomes.list

\* return None
NoErrors == [is_none |-> TRUE, base |-> ""]

\* return {"base": base}
Errors(base) == [is_none |-> FALSE, base |-> base]

\* mutant: the handlers of BotoCoreError and Exception are missing
validate_aws_credentials_boto_only(outcomes) ==
    LET exc == RaisedInTry(outcomes)
    IN IF exc = CallOk THEN [raised |-> "none", value |-> NoErrors]
       ELSE IF Catches("NoCredentialsError", exc)
       THEN [raised |-> "none", value |-> Errors("invalid_credentials")]
       ELSE IF Catches("ClientError", exc)
       THEN [raised |-> "none",
             value |-> IF exc.code = "UnrecognizedClientException"
                       THEN Errors("invalid_credentials")
                       ELSE IF exc.code = "AccessDeniedException"
                       THEN Errors("access_denied")
                       ELSE Errors("unknown_error")]
       ELSE [raised |-> exc.class, value |-> NoErrors]

\* validate_aws_credentials (lines 64-106): the handlers in their order
validate_aws_credentials(outcomes) ==
    LET exc == RaisedInTry(outcomes)
    IN IF exc = CallOk THEN [raised |-> "none", value |-> NoErrors]
       ELSE IF Catches("NoCredentialsError", exc)
       THEN [raised |-> "none", value |-> Errors("invalid_credentials")]
       ELSE IF Catches("ClientError", exc)
       THEN [raised |-> "none",
             value |-> IF exc.code = "UnrecognizedClientException"
                       THEN Errors("invalid_credentials")
                       ELSE IF exc.code = "AccessDeniedException"
                       THEN Errors("access_denied")
                       ELSE Errors("unknown_error")]
       ELSE IF Catches("BotoCoreError", exc)
       THEN [raised |-> "none", value |-> Errors("unknown_error")]
       ELSE IF Catches("Exception", exc)
       THEN [raised |-> "none", value |-> Errors("unknown_error")]
       ELSE [raised |-> exc.class, value |-> NoErrors]

InitValidate ==
    /\ validate_pc = "ready"
    /\ aws_outcomes \in [create : {CallOk} \cup AwsExceptions,
                          list : {CallOk} \cup AwsExceptions,
                          aws_region : {"None", "eu-west-1"}]
    /\ validate_result = <<>>
    /\ ToolIdle
    /\ GenerateIdle
    /\ TrimIdle
    /\ ClientIdle
    /\ PairIdle
    /\ EntitiesIdle
    /\ ColorIdle
    /\ CallEntry
    /\ user_input = [text |-> UserText, conversation_id |-> NoConversationId]
    /\ options = [max_tool_call_iterations |-> 0, llm_hass_api |-> TRUE,
                  remember_conversation |-> TRUE, refresh_system_prompt |-> FALSE]
    /\ chat_log = <<>>
    /\ earlier_turns = <<>>
    /\ call_no = 1
    /\ next_addr = 1
    /\ bedrock_runtime = NoClient

\* one call of validate_aws_credentials
ValidateEnds ==
    /\ validate_pc = "ready"
    /\ LET ended == validate_aws_credentials(aws_outcomes)
       IN /\ validate_result' = ended
          /\ validate_pc' = IF ended.raised = "none" THEN "returned" ELSE "raised"
    /\ UNCHANGED <<aws_outcomes, entities_pc, hass_states, devices,
                   color_pc, requested_color, color_name,
                   generate_pc, generate_args, request_body>>
    /\ UNCHANGED <<loopvars, toolvars, trimvars, clientvars, pairvars>>

NextValidate == ValidateEnds

SpecValidate == InitValidate /\ [][NextValidate]_vars

\* ---------------- C25

\* the failure the validation met: the exception of the client creation or,
\* after it, of the listing
ValidationFailure ==
    IF aws_outcomes.create /= CallOk THEN aws_outcomes.create ELSE aws_outcomes.list

\* C25: validate_aws_credentials never raises.  It returns None exactly when
\* creating the client and listing the foundation models both succeed,
\* {"base": "invalid_credentials"} for NoCredentialsError or a ClientError with
\* code UnrecognizedClientException, {"base": "access_denied"} for a ClientError
\* with code AccessDeniedException, and {"base": "unknown_error"} for every
\* other failure.
C25_ValidationNeverRaises ==
    /\ validate_pc /= "raised"
    /\ validate_pc = "returned"
       => LET failure == ValidationFailure
              value == validate_result.value
          IN /\ validate_result.raised = "none"
             /\ value.is_none
                <=> (aws_outcomes.create = CallOk /\ aws_outcomes.list = CallOk)
             /\ ~value.is_none
                => value.base =
                     IF \/ failure.class = "NoCredentialsError"
                        \/ failure = ClientErrorWith("UnrecognizedClientException")
                     THEN "invalid_credentials"
                     ELSE IF failure = ClientErrorWith("AccessDeniedException")
                     THEN "access_denied"
                     ELSE "unknown_error"

\* the client is created, the listing is refused, and the form error is
\* access_denied
C25_Witness ==
    /\ validate_pc = "returned"
    /\ aws_outcomes.create = CallOk
    /\ aws_outcomes.list = ClientErrorWith("AccessDeniedException")
    /\ validate_result.value = Errors("access_denied")

\* ------------------------- specification of _get_exposed_entities

\* the entities of the installation, in the order of hass.states.async_all()
EntityIds == <<"light.kitchen", "climate.hall", "lock.front_door">>

FriendlyNames == <<"Kitchen Light", "Hall Thermostat", "Front Door">>

\* state.attributes of entity k without the friendly name; a value is a
\* number, an RGB triple or a text
OtherAttributes(k) ==
    CASE k = 1 -> << <<"brightness", 128>>, <<"rgb_color", <<0, 255, 255>>>> >>
      [] k = 2 -> << <<"temperature", 21>>, <<"fan_mode", "auto">> >>
      [] OTHER -> <<>>

\* The State object of entity k; exposed is what async_should_expose(hass,
\* "conversation", entity_id) answers for it.
StateOf(k, exposed, named) ==
    [entity_id |-> EntityIds[k],
     domain |-> CASE k = 1 -> "light" [] k = 2 -> "climate" [] OTHER -> "lock",
     state |-> CASE k = 1 -> "on" [] k = 2 -> "heat" [] OTHER -> "locked",
     attributes |-> (IF named THEN << <<"friendly_name", FriendlyNames[k]>> >>
                     ELSE <<>>) \o OtherAttributes(k),
     exposed |-> exposed]

\* the states entity k can have in the state machine: none, or one State
StatesOfEntity(k) ==
    {<<>>} \cup {<<StateOf(k, e, n)>> : e \in BOOLEAN, n \in BOOLEAN}

\* hass.states.async_all()
StateLists ==
    {s1 \o s2 \o s3 : s1 \in StatesOfEntity(1), s2 \in StatesOfEntity(2),
                      s3 \in StatesOfEntity(3)}

\* the option extra_attributes_to_expose: the default [] or a list of names,
\* in the order the configuration lists them
ExtraAttributeLists ==
    {<<>>,
     <<"brightness", "rgb_color", "temperature", "fan_mode">>,
     <<"fan_mode", "temperature", "rgb_color", "brightness">>}

\* name in extra_attributes, for a list
InList(name, list) == \E i \in 1..Len(list) : list[i] = name

\* entity_registry.async_get(entity_id): the climate entity has no entry, the
\* lock has an entry without area
EntityEntry(entity_id) ==
    CASE entity_id = "light.kitchen" -> [found |-> TRUE, area_id |-> "kitchen"]
      [] entity_id = "lock.front_door" -> [found |-> TRUE, area_id |-> "None"]
      [] OTHER -> [found |-> FALSE, area_id |-> "None"]

\* area_registry.async_get_area(area_id).name
AreaName(area_id) == IF area_id = "kitchen" THEN "Kitchen" ELSE "None"

\* an element of the list attributes: a number with its unit, or a text
Formatted(label, number) == [label |-> label, number |-> number]

\* Lines 148-226 for the attributes of the model: brightness and rgb_color of
\* a light, temperature, fan_mode.  The other attributes of the code follow
\* the pattern of temperature (is not None) or of fan_mode (truthy) and add
\* to this list only.
AttributesOf(state, extra_attributes) ==
    LET attrs == state.attributes
    IN (IF state.domain = "light" /\ InList("brightness", extra_attributes)
           /\ HasKey(attrs, "brightness")
        THEN <<Formatted("%", (DictGet(attrs, "brightness") * 100) \div 255)>>
        ELSE <<>>)
       \o (IF state.domain = "light" /\ InList("rgb_color", extra_attributes)
              /\ HasKey(attrs, "rgb_color")
           THEN <<Formatted(closest_color(DictGet(attrs, "rgb_color")), 0)>>
           ELSE <<>>)
       \o (IF InList("temperature", extra_attributes) /\ HasKey(attrs, "temperature")
           THEN <<Formatted("°", DictGet(attrs, "temperature"))>>
           ELSE <<>>)
       \o (IF InList("fan_mode", extra_attributes) /\ HasKey(attrs, "fan_mode")
           THEN <<Formatted("fan:" \o DictGet(attrs, "fan_mode"), 0)>>
           ELSE <<>>)

\* state.attributes.get("friendly_name", state.entity_id)
DisplayName(state) ==
    IF HasKey(state.attributes, "friendly_name")
    THEN DictGet(state.attributes, "friendly_name")
    ELSE state.entity_id

\* the DeviceInfo appended for a state (lines 139-146, 228-235)
DeviceInfoOf(state, extra_attributes) ==
    LET entity_entry == EntityEntry(state.entity_id)
        area_id == IF entity_entry.found THEN entity_entry.area_id ELSE "None"
    IN [entity_id |-> state.entity_id,
        name |-> DisplayName(state),
        state |-> state.state,
        area_id |-> area_id,
        area_name |-> IF area_id /= "None" THEN AreaName(area_id) ELSE "None",
        attributes |-> AttributesOf(state, extra_attributes)]

RECURSIVE get_exposed_entities_all(_, _)
\* mutant: async_should_expose is not asked
get_exposed_entities_all(states, extra_attributes) ==
    IF states = <<>> THEN <<>>
    ELSE <<DeviceInfoOf(Head(states), extra_attributes)>>
         \o get_exposed_entities_all(Tail(states), extra_attributes)

RECURSIVE get_exposed_entities(_, _)
\* _get_exposed_entities (lines 123-238): the loop over the states
get_exposed_entities(states, extra_attributes) ==
    IF states = <<>> THEN <<>>
    ELSE (IF ~Head(states).exposed THEN <<>>
          ELSE <<DeviceInfoOf(Head(states), extra_attributes)>>)
         \o get_exposed_entities(Tail(states), extra_attributes)

InitEntities ==
    /\ entities_pc = "ready"
    /\ hass_states \in [async_all : StateLists,
                         extra_attributes : ExtraAttributeLists]
    /\ devices = <<>>
    /\ ToolIdle
    /\ TrimIdle
    /\ ClientIdle
    /\ PairIdle
    /\ ColorIdle
    /\ ValidateIdle
    /\ GenerateIdle
    /\ CallEntry
    /\ user_input = [text |-> UserText, conversation_id |-> NoConversationId]
    /\ options = [max_tool_call_iterations |-> 0, llm_hass_api |-> TRUE,
                  remember_conversation |-> TRUE, refresh_system_prompt |-> FALSE]
    /\ chat_log = <<>>
    /\ earlier_turns = <<>>
    /\ call_no = 1
    /\ next_addr = 1
    /\ bedrock_runtime = NoClient

\* one call of _get_exposed_entities
GetExposedEntitiesReturns ==
    /\ entities_pc = "ready"
    /\ devices' = get_exposed_entities(hass_states.async_all,
                                       hass_states.extra_attributes)
    /\ entities_pc' = "returned"
    /\ UNCHANGED <<hass_states, color_pc, requested_color, color_name,
                   validate_pc, aws_outcomes, validate_result,
                   generate_pc, generate_args, request_body>>
    /\ UNCHANGED <<loopvars, toolvars, trimvars, clientvars, pairvars>>

NextEntities == GetExposedEntitiesReturns

SpecEntities == InitEntities /\ [][NextEntities]_vars

\* ---------------- C23

\* the positions of devices that describe the entity
EntriesOf(entity_id) == {j \in 1..Len(devices) : devices[j].entity_id = entity_id}

\* C23: the device snapshot built by _get_exposed_entities contains exactly
\* one entry for each device marked exposed to the conversation surface and no
\* entry for a device not marked exposed; each entry carries the device's
\* entity id and its display name, which is the friendly name, or the entity
\* id when the device has no friendly name.
C23_SnapshotHoldsExposedDevices ==
    entities_pc = "returned"
    => LET states == hass_states.async_all
       IN /\ \A i \in 1..Len(states) :
               /\ states[i].exposed => Cardinality(EntriesOf(states[i].entity_id)) = 1
               /\ ~states[i].exposed => EntriesOf(states[i].entity_id) = {}
          /\ \A j \in 1..Len(devices) :
               \E i \in 1..Len(states) :
                  /\ states[i].exposed
                  /\ devices[j].entity_id = states[i].entity_id
                  /\ devices[j].name =
                       IF \E a \in 1..Len(states[i].attributes) :
                             states[i].attributes[a][1] = "friendly_name"
                       THEN FriendlyNames[CHOOSE k \in 1..Len(EntityIds) :
                                             EntityIds[k] = states[i].entity_id]
                       ELSE states[i].entity_id

\* three devices: one hidden, one exposed under its friendly name, one exposed
\* without a friendly name
C23_Witness ==
    /\ entities_pc = "returned"
    /\ Len(hass_states.async_all) = 3
    /\ ~hass_states.async_all[1].exposed
    /\ Len(devices) = 2
    /\ devices[1].entity_id = "climate.hall"
    /\ devices[1].name = "Hall Thermostat"
    /\ devices[2].entity_id = "lock.front_door"
    /\ devices[2].name = "lock.front_door"

\* ---------------- C31

\* the number of tool-use blocks of a response
ToolUseCount(content) == Len(ToolUseBlocksOf(content))

RECURSIVE CallsOfToolUseRounds(_)
\* the number of tool calls asked for by the first n replies, counting only
\* the responses whose stop_reason is "tool_use"
CallsOfToolUseRounds(n) ==
    IF n = 0 THEN 0
    ELSE CallsOfToolUseRounds(n - 1)
         + (IF replies[n].kind = "response" /\ replies[n].stop_reason = "tool_use"
            THEN ToolUseCount(replies[n].content) ELSE 0)

\* C31: a tool call is executed only in a round whose response has
\* stop_reason "tool_use".  The tool calls executed so far are those of the
\* responses with that stop_reason and no others, and a round is dispatched
\* only for such a response; tool-use blocks of a response with another
\* stop_reason are never executed.
C31_ToolsRunOnlyOnToolUse ==
    /\ pc = "dispatch" => replies[Len(replies)].stop_reason = "tool_use"
    /\ Len(tool_log) = CallsOfToolUseRounds(IF pc = "dispatch"
                                            THEN Len(replies) - 1
                                            ELSE Len(replies))
    /\ \A k \in 1..Len(replies) :
          (/\ replies[k].kind = "response"
           /\ replies[k].stop_reason \in {"end_turn", "max_tokens"})
          => /\ k = Len(replies)
             /\ pc = "done"

\* after a completed tool round the backend answers "end_turn" with a
\* tool-use block, which is not executed
C31_Witness ==
    /\ pc = "done"
    /\ Len(replies) = 2
    /\ replies[1].stop_reason = "tool_use"
    /\ replies[2].stop_reason = "end_turn"
    /\ ToolUseCount(replies[2].content) >= 1
    /\ Len(tool_log) = ToolUseCount(replies[1].content)
    /\ Len(tool_log) >= 1

\* ---------------- C32

RECURSIVE TextOfBlocks(_)
\* the texts of the text blocks of a response, concatenated in order
TextOfBlocks(content) ==
    IF content = <<>> THEN <<>>
    ELSE (IF Head(content).type = "text" THEN Head(content).text ELSE <<>>)
         \o TextOfBlocks(Tail(content))

\* stripped is full without the whitespace at its two ends
IsStripped(stripped, full) ==
    \E a \in 1..(Len(full) + 1), b \in 0..Len(full) :
        /\ stripped = SubSeq(full, a, b)
        /\ \A i \in 1..Len(full) : (i < a \/ i > b) => full[i] = " "
        /\ stripped /= <<>> => (stripped[1] /= " " /\ stripped[Len(stripped)] /= " ")

MaxContent == 4

\* the turns a conversation can hold at position i: those of a chat log, and
\* assistant turns without text, with two tool calls, or with neither text
\* nor tool call
ContentAt(i) ==
    IF i = 1 THEN {SystemContent(<<TurnTexts[1]>>), SystemContent(<<>>)}
    ELSE TurnsAt(i)
         \cup {AssistantContent(<<>>, <<ToolInput(i + 1, SERVICE_TOOL_NAME, ToolArgs)>>),
               AssistantContent(<<TurnTexts[i]>>,
                                <<ToolInput(i + 1, SERVICE_TOOL_NAME, ToolArgs),
                                  ToolInput(i + 2, SERVICE_TOOL_NAME, ToolArgs)>>),
               AssistantContent(<<>>, <<>>)}

RECURSIVE ContentsOfLen(_)
ContentsOfLen(n) ==
    IF n = 0 THEN {<<>>}
    ELSE {Append(h, t) : h \in ContentsOfLen(n - 1), t \in ContentAt(n)}

\* conversation_content
ConversationContents == UNION {ContentsOfLen(n) : n \in 1..MaxContent}

\* options[CONF_MODEL_ID] as the parts of the identifier
ModelIds == {<<"anthropic.claude", "-3-5-sonnet-20240620-v1:0">>,
             <<"us.", "anthropic.claude", "-3-5-haiku-20241022-v1:0">>,
             <<"amazon.titan", "-text-express-v1">>,
             <<"meta.llama3", "-70b-instruct-v1:0">>}

\* mutant: "anthropic.claude" is looked for at the start of the identifier
IsClaudeModelByPrefix(model_id) == model_id[1] = "anthropic.claude"

\* "anthropic.claude" in model_id (line 486)
IsClaudeModel(model_id) ==
    \E i \in 1..Len(model_id) : model_id[i] = "anthropic.claude"

\* The request body of lines 467-487: RequestBody with the keys it leaves
\* out; max_tokens and anthropic_version are always present, tools are present
\* when the LLM API has tools.
FullRequestBody(conversation_content, model_id, api) ==
    LET body == RequestBody(conversation_content)
    IN [messages |-> body.messages,
        has_system |-> body.has_system,
        system |-> body.system,
        has_temperature |-> body.has_temperature,
        has_max_tokens |-> TRUE,
        has_tools |-> api = "loaded",
        has_top_p |-> ~IsClaudeModel(model_id)]

InitGenerate ==
    /\ generate_pc = "ready"
    /\ generate_args \in [conversation_content : ConversationContents,
                           model_id : ModelIds,
                           llm_api : {"None", "loaded"}]
    /\ request_body = <<>>
    /\ ToolIdle
    /\ TrimIdle
    /\ ClientIdle
    /\ PairIdle
    /\ EntitiesIdle
    /\ ColorIdle
    /\ ValidateIdle
    /\ CallEntry
    /\ user_input = [text |-> UserText, conversation_id |-> NoConversationId]
    /\ options = [max_tool_call_iterations |-> 0, llm_hass_api |-> TRUE,
                  remember_conversation |-> TRUE, refresh_system_prompt |-> FALSE]
    /\ chat_log = <<>>
    /\ earlier_turns = <<>>
    /\ call_no = 1
    /\ next_addr = 1
    /\ bedrock_runtime = NoClient

\* lines 447-487 of async_generate: the request body is built
BuildRequest ==
    /\ generate_pc = "ready"
    /\ request_body' = FullRequestBody(generate_args.conversation_content,
                                       generate_args.model_id,
                                       generate_args.llm_api)
    /\ generate_pc' = "built"
    /\ UNCHANGED <<generate_args, entities_pc, hass_states, devices,
                   color_pc, requested_color, color_name,
                   validate_pc, aws_outcomes, validate_result>>
    /\ UNCHANGED <<loopvars, toolvars, trimvars, clientvars, pairvars>>

NextGenerate == BuildRequest

SpecGenerate == InitGenerate /\ [][NextGenerate]_vars

\* ---------------- C33

\* the messages rendered for the first n turns of the conversation
RenderedUpTo(n) ==
    BuildBedrockMessages(SubSeq(generate_args.conversation_content, 1, n))

\* all but the last element
Front(seq) == SubSeq(seq, 1, Len(seq) - 1)

\* C33: _build_bedrock_messages renders each ToolResultTurn as a tool_result
\* block keyed by its tool_call_id; the block is appended to the last rendered
\* message when that message has role user and otherwise starts a new user
\* message, so that successive tool results form a single user message in
\* their order.
C33_ToolResultFoldsIntoUserMessage ==
    generate_pc = "built"
    => LET cc == generate_args.conversation_content
       IN /\ request_body.messages = RenderedUpTo(Len(cc))
          /\ \A n \in 1..Len(cc) :
               cc[n].type = "tool_result"
               => LET before == RenderedUpTo(n - 1)
                      after == RenderedUpTo(n)
                      last == after[Len(after)]
                      block == last.content[Len(last.content)]
                  IN /\ after /= <<>>
                     /\ last.role = "user"
                     /\ block.type = "tool_result"
                     /\ block.tool_use_id = cc[n].tool_call_id
                     /\ IF before /= <<>> /\ before[Len(before)].role = "user"
                        THEN /\ Len(after) = Len(before)
                             /\ Front(after) = Front(before)
                             /\ Front(last.content) = before[Len(before)].content
                        ELSE /\ Front(after) = before
                             /\ Len(last.content) = 1
          /\ \A n \in 1..(Len(cc) - 1) :
               (cc[n].type = "tool_result" /\ cc[n + 1].type = "tool_result")
               => Len(RenderedUpTo(n + 1)) = Len(RenderedUpTo(n))

\* the two results of a round with two tool calls make one user message
C33_Witness ==
    /\ generate_pc = "built"
    /\ Len(generate_args.conversation_content) = 4
    /\ generate_args.conversation_content[2].type = "assistant"
    /\ Len(generate_args.conversation_content[2].tool_calls) = 2
    /\ generate_args.conversation_content[3].type = "tool_result"
    /\ generate_args.conversation_content[4].type = "tool_result"
    /\ Len(request_body.messages) = 2
    /\ request_body.messages[2].role = "user"
    /\ Len(request_body.messages[2].content) = 2
    /\ request_body.messages[2].content[1].tool_use_id
         = generate_args.conversation_content[3].tool_call_id
    /\ request_body.messages[2].content[2].tool_use_id
         = generate_args.conversation_content[4].tool_call_id

\* ---------------- C34

\* the text of the first SystemTurn of the conversation, <<>> without one
SystemTextOf(cc) ==
    IF \E i \in 1..Len(cc) : cc[i].type = "system"
    THEN cc[CHOOSE i \in 1..Len(cc) :
                /\ cc[i].type = "system"
                /\ \A j \in 1..(i - 1) : cc[j].type /= "system"].content
    ELSE <<>>

\* the system text is sent in the system field, which is left out when
\* there is no system text, and no message has another role than user or
\* assistant
SystemGoesToSystemField ==
    LET text == SystemTextOf(generate_args.conversation_content)
    IN /\ request_body.has_system <=> text /= <<>>
       /\ request_body.has_system => request_body.system = text
       /\ \A m \in 1..Len(request_body.messages) :
            request_body.messages[m].role \in {"user", "assistant"}

\* message is the assistant message of the turn: a text block only if the
\* text is not empty, then one tool_use block per tool call, in order
IsAssistantMessageOf(message, turn) ==
    LET offset == IF turn.content /= <<>> THEN 1 ELSE 0
    IN /\ message.role = "assistant"
       /\ Len(message.content) = offset + Len(turn.tool_calls)
       /\ offset = 1 => message.content[1] = [type |-> "text", text |-> turn.content]
       /\ \A k \in 1..Len(turn.tool_calls) :
            /\ message.content[offset + k].type = "tool_use"
            /\ message.content[offset + k].name = turn.tool_calls[k].tool_name
            /\ message.content[offset + k].input = turn.tool_calls[k].tool_args

\* turn n of the conversation is rendered as the claim says; an assistant
\* turn that is exempt adds no message
TurnIsRendered(n, exempt) ==
    LET turn == generate_args.conversation_content[n]
        before == RenderedUpTo(n - 1)
        after == RenderedUpTo(n)
    IN CASE turn.type = "system" -> after = before
         [] turn.type = "user" ->
               after = Append(before, [role |-> "user",
                                       content |-> <<[type |-> "text",
                                                      text |-> turn.content]>>])
         [] turn.type = "assistant" ->
               IF exempt
               THEN after = before
               ELSE /\ Len(after) = Len(before) + 1
                    /\ Front(after) = before
                    /\ IsAssistantMessageOf(after[Len(after)], turn)
         [] OTHER -> TRUE

\* the statement as the specification words it: the SystemTurn goes to the
\* system field, each UserTurn becomes one user message with a single text
\* block, and each AssistantTurn becomes one assistant message.
C34_EveryTurnBecomesAMessage ==
    generate_pc = "built"
    => /\ SystemGoesToSystemField
       /\ \A n \in 1..Len(generate_args.conversation_content) :
            TurnIsRendered(n, FALSE)

\* C34: in every request built by async_generate the SystemTurn never appears
\* in the messages: its text is sent in the system field, which is left out
\* when there is no system text.  Each UserTurn becomes one user message with
\* a single text block.  Each AssistantTurn that has text or a tool call
\* becomes one assistant message, with a text block only if its text is not
\* empty, followed by one tool_use block per recorded tool call, in order; an
\* AssistantTurn with neither text nor tool call adds no message.
C34_TurnsAreRendered ==
    generate_pc = "built"
    => /\ SystemGoesToSystemField
       /\ \A n \in 1..Len(generate_args.conversation_content) :
            LET turn == generate_args.conversation_content[n]
            IN TurnIsRendered(n, /\ turn.type = "assistant"
                                 /\ turn.content = <<>>
                                 /\ turn.tool_calls = <<>>)

\* a system turn with text, a user turn and an assistant turn that has a tool
\* call and no text
C34_Witness ==
    /\ generate_pc = "built"
    /\ Len(generate_args.conversation_content) = 3
    /\ generate_args.conversation_content[2].type = "user"
    /\ generate_args.conversation_content[3].type = "assistant"
    /\ generate_args.conversation_content[3].content = <<>>
    /\ request_body.has_system
    /\ request_body.system = <<TurnTexts[1]>>
    /\ Len(request_body.messages) = 2
    /\ Len(request_body.messages[2].content) = 1
    /\ request_body.messages[2].content[1].type = "tool_use"

\* ---------------- C35

\* the model identifier of the call contains "anthropic.claude"
ForClaude ==
    "anthropic.claude" \in {generate_args.model_id[i] :
                               i \in 1..Len(generate_args.model_id)}

\* C35: the request built by async_generate always carries temperature, and
\* carries top_p exactly when the model identifier does not contain
\* "anthropic.claude"; for a Claude model the request never contains both.
C35_TopPOnlyForOtherModels ==
    generate_pc = "built"
    => /\ request_body.has_temperature
       /\ request_body.has_top_p <=> ~ForClaude
       /\ ForClaude => ~(request_body.has_temperature /\ request_body.has_top_p)

\* a Claude model addressed through a cross-region inference profile
C35_Witness ==
    /\ generate_pc = "built"
    /\ generate_args.model_id[1] = "us."
    /\ ForClaude
    /\ request_body.has_temperature
    /\ ~request_body.has_top_p

\* ------------------------------------------------------------------ C36

\* the optional properties of HassServiceTool.parameters: every property
\* other than the required "service" and "target_device"
AdvertisedOptionalParameters ==
    {"brightness", "rgb_color", "temperature", "humidity", "fan_mode",
     "hvac_mode", "preset_mode", "item", "duration"}

\* C36: every optional parameter that HassServiceTool.parameters advertises
\* and that an allow-listed call supplies reaches the service backend with
\* the value supplied.
C36_AdvertisedParametersReachBackend ==
    (run_pc /= "ready" /\ IsAllowedServiceCall(run_args)) =>
        /\ Len(service_calls) = 1
        /\ \A i \in 1..Len(run_args) :
              run_args[i][1] \in AdvertisedOptionalParameters =>
                 /\ HasKey(service_calls[1].service_data, run_args[i][1])
                 /\ DictGet(service_calls[1].service_data, run_args[i][1])
                       = run_args[i][2]

\* ------------------------------------------------------------------ C37

RECURSIVE InAllowListOrder(_, _)
\* the formatted attributes of a state taken name by name in the order of the
\* allow-list
InAllowListOrder(state, names) ==
    IF names = <<>> THEN <<>>
    ELSE AttributesOf(state, <<Head(names)>>)
         \o InAllowListOrder(state, Tail(names))

\* the states of hass.states.async_all() that are exposed, in order
ExposedStates == SelectSeq(hass_states.async_all, LAMBDA state : state.exposed)

\* C37: for every exposed device, the formatted attribute strings of its
\* snapshot appear in the order in which the attribute names are listed in
\* the configured exposed-attribute allow-list.
C37_AttributesFollowAllowListOrder ==
    entities_pc = "returned" =>
        /\ Len(devices) = Len(ExposedStates)
        /\ \A d \in 1..Len(devices) :
              devices[d].attributes =
                 InAllowListOrder(ExposedStates[d], hass_states.extra_attributes)

\* ------------------------------------------------------------------ C38

\* the roles of the messages of a request, in order
RolesOf(request) == [m \in 1..Len(request.messages) |-> request.messages[m].role]

\* user, assistant, user, ..., user
AlternatesFromUserToUser(roles) ==
    /\ Len(roles) % 2 = 1
    /\ \A m \in 1..Len(roles) :
          roles[m] = IF m % 2 = 1 THEN "user" ELSE "assistant"

\* C38: within one call of async_process that starts from an empty history,
\* the messages of every request sent to the backend alternate strictly
\* between the roles user and assistant, beginning and ending with a user
\* message, whatever the backend answered and however the tools ended.
C38_RequestsAlternateRoles ==
    LoadedHistory = <<>> =>
        \A j \in 1..Len(requests) :
            requests[j] /= NoRequest => AlternatesFromUserToUser(RolesOf(requests[j]))

\* the second request of a call whose first response asked for two tools: the
\* assistant message and one user message holding both results follow the
\* user's text
C38_Witness ==
    /\ LoadedHistory = <<>>
    /\ Len(requests) = 2
    /\ RolesOf(requests[2]) = <<"user", "assistant", "user">>
    /\ Len(requests[2].messages[1].content) = 1
    /\ Len(requests[2].messages[3].content) = 2

\* ------------------------------------------------------------------ C39

\* a run of _create_bedrock_client has failed and none has succeeded
ConstructionFailed ==
    /\ \E c \in Callers : client_pc[c] = "raised"
    /\ created = <<>>

\* C39: when _create_bedrock_client fails inside _ensure_client, the handle
\* stays unset and the lock is released: the lock is then free or held by a
\* caller that is running the construction again, a caller waiting for the
\* free lock can take it and starts a new construction, and a caller that
\* has not finished is never left without a step that some caller can take.
C39_FailedConstructionIsRetried ==
    ConstructionFailed =>
        /\ bedrock_runtime = NoClient
        /\ \/ client_lock = 0
           \/ client_pc[client_lock] = "executor"
        /\ \A d \in Callers :
              /\ client_pc[d] = "start" => ENABLED EnsureEnter(d)
              /\ (client_pc[d] = "acquire" /\ client_lock = 0)
                    => /\ ENABLED LockAcquired(d)
                       /\ ClientStillMissing(bedrock_runtime)
              /\ client_pc[d] \in {"start", "acquire", "executor"}
                    => ENABLED NextClient

\* two constructions failed, the third caller's construction succeeded, and
\* the fourth caller can go on
C39_Witness ==
    /\ client_pc[1] = "raised"
    /\ client_pc[2] = "raised"
    /\ client_pc[3] = "returned"
    /\ client_pc[4] = "acquire"
    /\ factory_runs = 3
    /\ client_seen[3] = ClientHandle(3)
    /\ bedrock_runtime = ClientHandle(3)
    /\ client_lock = 0

\* ------------------------------------------------------------------ C40

\* a step of async_process from its entry, with an LLM API configured, that
\* does not leave with the API loaded: llm.async_get_api raised
LlmApiLoadFails ==
    /\ pc = "idle"
    /\ options.llm_hass_api
    /\ llm_api' /= "loaded"

\* C40: when an LLM tool API is configured and loading it fails with
\* HomeAssistantError, async_process returns an error result at once: no
\* system prompt is generated, no backend call is made, no tool is executed
\* and nothing follows the return.
C40_LlmApiFailureReturnsError ==
    /\ [][LlmApiLoadFails =>
             /\ pc' = "done"
             /\ raised' = "none"
             /\ result' = ErrorResult(<<"Error preparing LLM API: ",
                                        "HomeAssistantError">>,
                                      ResultConversationId(user_input))
             /\ prompt_outcome' = "none"
             /\ message_history' = <<>>
             /\ backend_calls' = 0
             /\ requests' = <<>>
             /\ replies' = <<>>
             /\ tool_log' = <<>>]_vars
    /\ [](EndedBeforePrompt =>
             /\ options.llm_hass_api
             /\ llm_api = "None"
             /\ backend_calls = 0
             /\ tool_log = <<>>
             /\ ~ENABLED Next)

\* the API fails to load in a call that would have refreshed the prompt of a
\* remembered conversation
C40_Witness ==
    /\ EndedBeforePrompt
    /\ options.llm_hass_api
    /\ options.remember_conversation
    /\ options.refresh_system_prompt
    /\ chat_log /= <<>>
    /\ prompt_outcome = "none"
    /\ message_history = <<>>
    /\ backend_calls = 0
    /\ tool_log = <<>>

====
